---- MODULE Spec2Model ----
(***************************************************************************)
(* caprini: a driver for the DS4000E oscilloscope (ds4024_scpi.py) and the *)
(* Waveform / WaveformBundle containers with their JSON codec              *)
(* (waveform.py).                                                          *)
(*                                                                         *)
(* The program is single-threaded and synchronous.  Each public or         *)
(* internal method the claims talk about is one action; the action runs    *)
(* the whole method against the instrument and records                     *)
(*   trace : the commands handed to the transport, in order,               *)
(*   warns : the warnings emitted, in order,                               *)
(*   err   : the exception that left the method ("none" when it returned), *)
(* together with the value returned.  An exception stops the method where  *)
(* it is raised: every later step is skipped.                              *)
(*                                                                         *)
(* Numbers: the values of the preamble's floats are integers (floating     *)
(* point arithmetic is exact on the small integers used), and the sample   *)
(* rate 1.0/x_step is kept as the fraction <<1, x_step>>.                   *)
(***************************************************************************)
EXTENDS Integers, Sequences, FiniteSets, TLC

VARIABLES op, arg, trace, warns, err, settings, wfs, bundle, doc, docOf, ret, numpy,
          source, refs, mapping

vars == <<op, arg, trace, warns, err, settings, wfs, bundle, doc, docOf, ret,
         numpy, source, refs, mapping>>

(***************************************************************************)
(* Bounds of the model.                                                    *)
(***************************************************************************)
\* Longest sample payload of a data block the instrument returns.
MaxPoints == 2
\* Longest channel list handed to fetch_waveforms / collect.
MaxChannels == 2
\* The transport may fail at any of the first MaxFailAt commands of a call.
MaxFailAt == 32
\* The iteration order of a Python set is unspecified: the model tries the
\* rotations 0..MaxRot of one enumeration.
MaxRot == 1

(***************************************************************************)
(* Python dict helpers.                                                    *)
(***************************************************************************)
EmptyDict == <<>>

Put(d, k, v) == [x \in (DOMAIN d) \cup {k} |-> IF x = k THEN v ELSE d[x]]

Del(d, k) == [x \in (DOMAIN d) \ {k} |-> d[x]]

Range(s) == {s[i] : i \in DOMAIN s}

(***************************************************************************)
(* The transport session.  sc is the instrument as the call finds it:      *)
(*   sc.trig, sc.calc : the replies to :TRIG:MODE? and :CALC:MODE?         *)
(*   sc.pre           : the reply to :WAV:PRE? (a list of fields)          *)
(*   sc.blk           : the reply to :WAV:DATA? (bytes)                    *)
(*   sc.rot           : which enumeration order Python sets have           *)
(*   sc.failAt        : the command (counted from 1) at which the          *)
(*                      transport raises; 0 when it never does             *)
(* st is the running call: [trace, warns, err].                            *)
(***************************************************************************)
RET_NONE == "none"

RET_LINE == "line"

RET_WAVEFORM == "waveform"

\* A call as it runs: the commands sent, the warnings issued, the exception
\* raised if any, and, for each Waveform it has constructed, the mappings
\* the Waveform refers to.
Ctx0 == [trace |-> <<>>, warns |-> <<>>, err |-> "none", refs |-> <<>>]

Raise(st, e) == IF st.err = "none" THEN [st EXCEPT !.err = e] ELSE st

Warn(st, w) == IF st.err = "none" THEN [st EXCEPT !.warns = Append(@, w)] ELSE st

IdnLine == "RIGOL TECHNOLOGIES,DS4024,DS4A0000000001,00.02.03"

\* What the instrument answers to a text query sent as the n-th command of
\* the call.  The two MODE queries answer the active sub-mode, *IDN? the
\* identity; every other reply is tagged with n, so that two queries never
\* get the same reply and a repeated query is told from the first.
LineReply(sc, cmdline, n) ==
    CASE cmdline = ":TRIG:MODE?" -> sc.trig
      [] cmdline = ":CALC:MODE?" -> sc.calc
      [] cmdline = "*IDN?" -> IdnLine
      [] cmdline = ":WAV:PRE?" -> sc.pre
      [] OTHER -> "r" \o ToString(n)

\* _cmd: the command is handed to the transport (and so is part of the
\* trace even when the transport raises).  val is the text reply of a
\* RET_LINE command and the byte block of a RET_WAVEFORM command; a RET_NONE
\* command has no reply.  cmdline.strip() changes no command of the model:
\* none starts or ends with white space.
_cmd(sc, st, cmdline, ret_type) ==
    IF st.err # "none" THEN [st |-> st, val |-> ""]
    ELSE LET tr == Append(st.trace, cmdline)
             n  == Len(tr)
         IN  IF n = sc.failAt
             THEN [st |-> [st EXCEPT !.trace = tr, !.err = "TransportError"],
                   val |-> ""]
             ELSE [st |-> [st EXCEPT !.trace = tr],
                   val |-> CASE ret_type = RET_LINE -> LineReply(sc, cmdline, n)
                             [] ret_type = RET_NONE -> ""
                             [] OTHER -> sc.blk]

\* _idn
_idn(sc, st) == _cmd(sc, st, "*IDN?", RET_LINE)

(***************************************************************************)
(* _fetch_settings: one query per entry of the list, in list order.        *)
(***************************************************************************)
\* Line 122: result[s] = reply.
assigned(result, s, r) ==
    [st |-> r.st, val |-> IF r.st.err = "none" THEN Put(result, s, r.val) ELSE result]

\* Lines 121-122: acc = [st, val] is the call and the result so far.
RECURSIVE _fetch_settings_loop(_, _, _, _, _)
_fetch_settings_loop(sc, acc, prefix, slist, i) ==
    IF i > Len(slist) \/ acc.st.err # "none" THEN acc
    ELSE _fetch_settings_loop(sc,
             assigned(acc.val, slist[i],
                      _cmd(sc, acc.st, ":" \o prefix \o ":" \o slist[i] \o "?", RET_LINE)),
             prefix, slist, i + 1)

\* A faulty fetcher that asks for each distinct token once.
RECURSIVE Distinct(_)
Distinct(slist) ==
    IF slist = <<>> THEN <<>>
    ELSE IF \E i \in 1 .. Len(slist) - 1 : slist[i] = slist[Len(slist)]
         THEN Distinct(SubSeq(slist, 1, Len(slist) - 1))
         ELSE Append(Distinct(SubSeq(slist, 1, Len(slist) - 1)), slist[Len(slist)])

_fetch_settings_distinct(sc, st, prefix, slist) ==
    _fetch_settings_loop(sc, [st |-> st, val |-> EmptyDict], prefix, Distinct(slist), 1)

_fetch_settings(sc, st, prefix, slist) ==
    _fetch_settings_loop(sc, [st |-> st, val |-> EmptyDict], prefix, slist, 1)

(***************************************************************************)
(* _fetch_trigger_settings                                                 *)
(***************************************************************************)
TrigSettings == <<"STAT", "COUP", "HOLD", "MODE", "STAT", "STAT", "SWE", "NREJ">>

TrigSubfamSettings ==
    [CAN   |-> <<"BAUD", "BUS", "FTYP", "LEV", "SOUR", "SPO", "STYP", "WHEN">>,
     EDGE  |-> <<"LEV", "SLOP", "SOUR">>,
     IIC   |-> <<"ADDR", "AWID", "CLEV", "DATA", "DIR", "DLEV", "SCL", "SDA", "WHEN">>,
     PATT  |-> <<"LEV", "PATT", "SOUR">>,
     PULS  |-> <<"LEV", "LWID", "SOUR", "UWID", "WHEN">>,
     RUNT  |-> <<"ALEV", "BLEV", "POL", "SOUR", "WHEN", "WLOW", "WUPP">>,
     NEDG  |-> <<"EDGE", "IDLE", "LEV", "SLOP", "SOUR">>,
     RS232 |-> <<"BAUD", "BUS", "DATA", "LEV", "PAR", "SOUR", "STOP", "WHEN", "WIDT">>,
     SLOP  |-> <<"ALEV", "BLEV", "SOUR", "TLOW", "TUPP", "WHEN", "WIND">>,
     SPI   |-> <<"CLEV", "CS", "DATA", "DLEV", "MODE", "SCL",
                 "SDA", "SLEV", "SLOP", "TIM", "WHEN", "WIDT">>,
     USB   |-> <<"DMIN", "DPL", "MLEV", "PLEV", "SPE", "WHEN">>,
     VID   |-> <<"LEV", "LINE", "MODE", "POL", "SOUR", "STAN">>,
     FLEX  |-> <<"BAUD", "LEV", "SOUR", "WHEN">>]

\* `if subfam not in ["EDGE",]`: the sub-modes that draw no warning.
TrigTested == {"EDGE"}

TrigWarning(subfam) == "Capturing state of trigger mode " \o subfam \o " is untested"

\* A faulty merge, top_level.update(sublevel): the sub-mode's parameters land
\* among the top-level keys.
trigger_merge_flat(top, subfam, sublevel) ==
    IF sublevel.st.err # "none" THEN [st |-> sublevel.st, val |-> EmptyDict]
    ELSE [st |-> sublevel.st,
          val |-> [k \in DOMAIN top.val \cup DOMAIN sublevel.val |->
                      IF k \in DOMAIN sublevel.val THEN sublevel.val[k] ELSE top.val[k]]]

\* Line 163-164: the sub-level goes under the sub-mode's name.
trigger_merge(top, subfam, sublevel) ==
    IF sublevel.st.err # "none" THEN [st |-> sublevel.st, val |-> EmptyDict]
    ELSE [st |-> sublevel.st, val |-> Put(top.val, subfam, sublevel.val)]

\* A faulty dispatch that refuses what was not validated.
trigger_warn_fatal(st, subfam) ==
    IF subfam \notin TrigTested THEN Raise(st, "UserWarning") ELSE st

\* Line 160-161.
trigger_warn(st, subfam) ==
    IF subfam \notin TrigTested THEN Warn(st, TrigWarning(subfam)) ELSE st

\* A faulty lookup, subfam_settings.get(subfam, []): a mode the table does
\* not have gets an empty phase 2.
trigger_sublevel_lenient(sc, st, subfam) ==
    IF subfam \notin DOMAIN TrigSubfamSettings
    THEN _fetch_settings(sc, st, "TRIG:" \o subfam, <<>>)
    ELSE _fetch_settings(sc, st, "TRIG:" \o subfam, TrigSubfamSettings[subfam])

\* Line 162.  subfam_settings[subfam] is an argument of the phase-2 call:
\* Python evaluates it, and raises KeyError, before _fetch_settings sends
\* anything.
trigger_sublevel(sc, st, subfam) ==
    IF subfam \notin DOMAIN TrigSubfamSettings
    THEN [st |-> Raise(st, "KeyError"), val |-> EmptyDict]
    ELSE _fetch_settings(sc, st, "TRIG:" \o subfam, TrigSubfamSettings[subfam])

\* Lines 159-164, after the top level is in.
trigger_dispatch(sc, top) ==
    IF top.st.err # "none" THEN [st |-> top.st, val |-> EmptyDict]
    ELSE trigger_merge(top, top.val["MODE"],
             trigger_sublevel(sc, trigger_warn(top.st, top.val["MODE"]),
                              top.val["MODE"]))

_fetch_trigger_settings(sc, st) ==
    trigger_dispatch(sc, _fetch_settings(sc, st, "TRIG", TrigSettings))

(***************************************************************************)
(* _fetch_calc_settings.  Its parameter sets are Python sets: the order in *)
(* which phase 2 walks one is unspecified.                                 *)
(***************************************************************************)
CalcSettings == <<"MODE">>

CalcSubfamSettings ==
    [ADV  |-> {"EXPR", "INV", "VAR1", "VAR2", "VOFF", "VSC"},
     ADD  |-> {"INV", "SA", "SB", "VOFF", "VSC"},
     DIV  |-> {"INV", "SA", "SB", "VOFF", "VSC"},
     FFT  |-> {"HCEN", "HOFF", "HSC", "HSP", "SOUR", "SPL", "VOFF", "VSC", "VSM", "WIND"},
     LOG  |-> {"ATHR", "BTHR", "INV", "OPER", "SA", "SB", "VOFF", "VSC"},
     MULT |-> {"INV", "SA", "SB", "VOFF", "VSC"},
     SUB  |-> {"INV", "SA", "SB", "VOFF", "VSC"}]

CalcTested == {"SUB"}

CalcWarning(subfam) == "Capturing state of calc mode " \o subfam \o " is untested"

RECURSIVE SetToSeq(_)
SetToSeq(S) ==
    IF S = {} THEN <<>>
    ELSE LET x == CHOOSE y \in S : TRUE IN <<x>> \o SetToSeq(S \ {x})

\* One of the orders in which a `for` walks the set S: an enumeration of S
\* rotated by rot places.
IterOrder(S, rot) ==
    LET q == SetToSeq(S)
        n == Len(q)
    IN  [i \in 1 .. n |-> q[((i - 1 + rot) % n) + 1]]

calc_merge(top, subfam, sublevel) ==
    IF sublevel.st.err # "none" THEN [st |-> sublevel.st, val |-> EmptyDict]
    ELSE [st |-> sublevel.st, val |-> Put(top.val, subfam, sublevel.val)]

calc_warn(st, subfam) ==
    IF subfam \notin CalcTested THEN Warn(st, CalcWarning(subfam)) ELSE st

calc_sublevel(sc, st, subfam) ==
    IF subfam \notin DOMAIN CalcSubfamSettings
    THEN [st |-> Raise(st, "KeyError"), val |-> EmptyDict]
    ELSE _fetch_settings(sc, st, "CALC:" \o subfam,
                         IterOrder(CalcSubfamSettings[subfam], sc.rot))

calc_dispatch(sc, top) ==
    IF top.st.err # "none" THEN [st |-> top.st, val |-> EmptyDict]
    ELSE calc_merge(top, top.val["MODE"],
             calc_sublevel(sc, calc_warn(top.st, top.val["MODE"]), top.val["MODE"]))

_fetch_calc_settings(sc, st) ==
    calc_dispatch(sc, _fetch_settings(sc, st, "CALC", CalcSettings))

(***************************************************************************)
(* _fetch_channel_settings                                                 *)
(***************************************************************************)
ChannelSettings == <<"BVOL", "BWL", "COUP", "DISP", "IMP", "INV",
                     "OFFS", "PEND", "PROB", "SCAL", "TCAL", "TYPE",
                     "UNIT", "VERN">>

\* A faulty capture that finds out about FFT only after asking the channel.
_fetch_channel_settings_late(sc, st, channel) ==
    CASE channel = "MATH" -> _fetch_calc_settings(sc, st)
      [] channel = "FFT" ->
            [st |-> Raise(_fetch_settings(sc, st, channel, ChannelSettings).st, "Exception"),
             val |-> EmptyDict]
      [] OTHER -> _fetch_settings(sc, st, channel, ChannelSettings)

_fetch_channel_settings(sc, st, channel) ==
    CASE channel = "MATH" -> _fetch_calc_settings(sc, st)
      [] channel = "FFT" -> [st |-> Raise(st, "Exception"), val |-> EmptyDict]
      [] OTHER -> _fetch_settings(sc, st, channel, ChannelSettings)

(***************************************************************************)
(* Numbers.  A preamble field is a Python float (what float() returns,     *)
(* what json.loads makes of 2.0) or a Python int (what json.loads makes of *)
(* 2): [py |-> "float" or "int", v |-> the value].  A NumPy array of       *)
(* integers has a type [signed, bits] of 8, 16 or 32 bits (the wider ones  *)
(* behave as 32 on the values of the model, which overflow neither).       *)
(***************************************************************************)
PyFloat(v) == [py |-> "float", v |-> v]

PyInt(v) == [py |-> "int", v |-> v]

\* o - r of two Python numbers: an int when both are, else a float.
py_sub(o, r) == [py |-> IF o.py = "int" /\ r.py = "int" THEN "int" ELSE "float",
                 v |-> o.v - r.v]

(***************************************************************************)
(* _parse_preamble, _fetch_preamble.  A reply line is the list of its      *)
(* comma-separated fields; a field is [num |-> whether float() accepts it, *)
(* v |-> its value].                                                       *)
(***************************************************************************)
PreambleKeys == <<"format", "mode", "n_points", "n_avgs", "x_step", "x_origin",
                  "x_reference", "y_step", "y_origin", "y_reference">>

\* Line 86, preamble.split(','): the text, a sequence of characters, cut at
\* each comma; a text without comma, the empty one too, is one field.
RECURSIVE split(_)
split(text) ==
    IF \A i \in 1 .. Len(text) : text[i] # ","
    THEN <<text>>
    ELSE <<SubSeq(text, 1, (CHOOSE i \in 1 .. Len(text) :
                               text[i] = "," /\ \A j \in 1 .. i - 1 : text[j] # ",") - 1)>>
         \o split(SubSeq(text, (CHOOSE i \in 1 .. Len(text) :
                               text[i] = "," /\ \A j \in 1 .. i - 1 : text[j] # ",") + 1,
                         Len(text)))

\* Line 86, float(field), on the texts of the model: blanks around the
\* number are dropped, then come an optional sign and one or more digits.
\* (Fractions and exponents, which float() reads too, have no value among
\* the model's integers and are in no text of the model.)
RECURSIVE strip(_)
strip(f) ==
    IF f # <<>> /\ Head(f) = " " THEN strip(Tail(f))
    ELSE IF f # <<>> /\ f[Len(f)] = " " THEN strip(SubSeq(f, 1, Len(f) - 1))
    ELSE f

DigitChars == <<"0", "1", "2", "3", "4", "5", "6", "7", "8", "9">>

IsDigits(f) == f # <<>> /\ \A i \in 1 .. Len(f) : f[i] \in Range(DigitChars)

RECURSIVE DigitsOf(_)
DigitsOf(f) ==
    IF f = <<>> THEN 0
    ELSE 10 * DigitsOf(SubSeq(f, 1, Len(f) - 1))
         + (CHOOSE d \in 0 .. 9 : DigitChars[d + 1] = f[Len(f)])

unsigned(f) == IF f # <<>> /\ Head(f) \in {"-", "+"} THEN Tail(f) ELSE f

float_stripped(f) ==
    IF ~IsDigits(unsigned(f)) THEN [num |-> FALSE, v |-> 0]
    ELSE [num |-> TRUE,
          v |-> IF Head(f) = "-" THEN 0 - DigitsOf(unsigned(f)) ELSE DigitsOf(unsigned(f))]

float(f) == float_stripped(strip(f))

\* map(float, preamble.split(',')): the fields of the line, each with what
\* float() makes of it.
split_floats(text) == [i \in 1 .. Len(split(text)) |-> float(split(text)[i])]

\* A faulty decoder that reads the first ten fields and ignores the rest.
_parse_preamble_first_ten(preamble) ==
    IF Len(preamble) < 10 \/ \E i \in 1 .. 10 : ~preamble[i].num
    THEN [err |-> "ValueError", val |-> EmptyDict]
    ELSE [err |-> "none",
          val |-> [k \in Range(PreambleKeys) |->
                      PyFloat(preamble[CHOOSE i \in 1 .. 10 : PreambleKeys[i] = k].v)]]

\* The unpacking into ten names raises ValueError when the line has another
\* number of fields, and float() raises ValueError on a field that is no
\* number.
_parse_preamble(preamble) ==
    IF Len(preamble) # 10 \/ \E i \in DOMAIN preamble : ~preamble[i].num
    THEN [err |-> "ValueError", val |-> EmptyDict]
    ELSE [err |-> "none",
          val |-> [k \in Range(PreambleKeys) |->
                      PyFloat(preamble[CHOOSE i \in 1 .. 10 : PreambleKeys[i] = k].v)]]

parsed_preamble(preamble_s, p) ==
    [st |-> Raise(preamble_s.st, p.err), val |-> p.val]

preamble_of(preamble_s) ==
    IF preamble_s.st.err # "none" THEN [st |-> preamble_s.st, val |-> EmptyDict]
    ELSE parsed_preamble(preamble_s, _parse_preamble(preamble_s.val))

_fetch_preamble(sc, st) == preamble_of(_cmd(sc, st, ":WAV:PRE?", RET_LINE))

_set_channel(sc, st, channel_name) ==
    _cmd(sc, st, ":WAV:SOUR " \o channel_name, RET_NONE)

(***************************************************************************)
(* Waveform.__init__.  The result is [err, val]: val is the object when    *)
(* err = "none"; an exception leaves no object.                            *)
(***************************************************************************)
\* rawbuf[11:-1]: the bytes after the first 11 and before the last one
\* (none when the buffer has 12 bytes or fewer).
HeaderLen == 11

Readings(rawbuf) == SubSeq(rawbuf, HeaderLen + 1, Len(rawbuf) - 1)

\* The preamble fields __init__ reads after the format check.
InitReads == {"x_step", "x_origin", "y_step", "y_origin", "y_reference"}

NoWaveform == EmptyDict

(***************************************************************************)
(* NumPy arithmetic of an array with a Python number.                      *)
(***************************************************************************)
UInt8 == [kind |-> "int", signed |-> FALSE, bits |-> 8]

Float64 == [kind |-> "float", signed |-> TRUE, bits |-> 64]

Fits(v, ty) ==
    IF ty.bits = 32 THEN ty.signed \/ v >= 0
    ELSE IF ty.signed THEN 0 - 2 ^ (ty.bits - 1) <= v /\ v < 2 ^ (ty.bits - 1)
    ELSE 0 <= v /\ v < 2 ^ ty.bits

\* What an array of the type keeps of the value v: integer arithmetic wraps
\* around.
Wrap(v, ty) ==
    IF ty.bits = 32 THEN v
    ELSE IF ty.signed THEN ((v + 2 ^ (ty.bits - 1)) % (2 ^ ty.bits)) - 2 ^ (ty.bits - 1)
    ELSE v % (2 ^ ty.bits)

\* numpy.min_scalar_type of a Python int.
min_scalar_type(v) ==
    IF v >= 0 THEN [kind |-> "int", signed |-> FALSE, bits |-> IF v < 256 THEN 8 ELSE IF v < 65536 THEN 16 ELSE 32]
    ELSE [kind |-> "int", signed |-> TRUE, bits |-> IF v >= 0 - 128 THEN 8 ELSE IF v >= 0 - 32768 THEN 16 ELSE 32]

\* numpy.result_type of two integer types.
wider(a, b) == IF a >= b THEN a ELSE b

signed_over(s, u) == IF s > u THEN s ELSE IF u = 8 THEN 16 ELSE 32

result_type(a, b) ==
    IF a.signed = b.signed THEN [kind |-> "int", signed |-> a.signed, bits |-> wider(a.bits, b.bits)]
    ELSE IF a.signed THEN [kind |-> "int", signed |-> TRUE, bits |-> signed_over(a.bits, b.bits)]
    ELSE [kind |-> "int", signed |-> TRUE, bits |-> signed_over(b.bits, a.bits)]

\* The type of array (+ or *) Python int k.  NumPy before 2.0 looks at the
\* value of k ("legacy"); NumPy 2 keeps the array's type and raises
\* OverflowError when k is not of it ("nep50").
scalar_type(ty, k) ==
    IF numpy = "legacy" THEN [err |-> "none", ty |-> result_type(ty, min_scalar_type(k))]
    ELSE IF Fits(k, ty) THEN [err |-> "none", ty |-> ty]
    ELSE [err |-> "OverflowError", ty |-> ty]

\* An array is [err, ty, v]: ty is Float64 or an integer type, v the
\* values.  Float arithmetic is exact on the values of the model.
typed(rt, v) ==
    [err |-> rt.err, ty |-> rt.ty,
     v |-> IF rt.err = "none" THEN [i \in 1 .. Len(v) |-> Wrap(v[i], rt.ty)] ELSE <<>>]

arr_add(a, k) ==
    IF a.err # "none" THEN a
    ELSE IF a.ty.kind = "float" \/ k.py = "float"
    THEN [err |-> "none", ty |-> Float64, v |-> [i \in 1 .. Len(a.v) |-> a.v[i] + k.v]]
    ELSE typed(scalar_type(a.ty, k.v), [i \in 1 .. Len(a.v) |-> a.v[i] + k.v])

arr_mul(a, k) ==
    IF a.err # "none" THEN a
    ELSE IF a.ty.kind = "float" \/ k.py = "float"
    THEN [err |-> "none", ty |-> Float64, v |-> [i \in 1 .. Len(a.v) |-> a.v[i] * k.v]]
    ELSE typed(scalar_type(a.ty, k.v), [i \in 1 .. Len(a.v) |-> a.v[i] * k.v])

\* Line 67: np.frombuffer(..., dtype="B").
frombuffer(b) == [err |-> "none", ty |-> UInt8, v |-> b]

\* Lines 72-73 and 77: self.y = (y0 + self.readings) * dy.
y_of(preamble, readings) ==
    arr_mul(arr_add(frombuffer(readings),
                    py_sub(preamble["y_origin"], preamble["y_reference"])),
            preamble["y_step"])

\* Lines 69-70 and 76: self.t = x0 + dx*np.arange(len(self.readings)); arange
\* is of the platform's widest integers.
t_of(preamble, readings) ==
    [i \in 1 .. Len(readings) |-> preamble["x_origin"].v + preamble["x_step"].v * (i - 1)]

\* Lines 56-61 and 67-77, the format check passed.
Waveform_fields(preamble, rawbuf, channel_settings, idn_line, trigger_settings, version, y) ==
    IF y.err # "none" THEN [err |-> y.err, val |-> NoWaveform]
    ELSE [err |-> "none",
          val |-> [version |-> version,
                   preamble |-> preamble,
                   rawbuf |-> rawbuf,
                   channel_settings |-> channel_settings,
                   idn_line |-> idn_line,
                   trigger_settings |-> trigger_settings,
                   readings |-> Readings(rawbuf),
                   Fs |-> <<1, preamble["x_step"].v>>,
                   t |-> t_of(preamble, Readings(rawbuf)),
                   y |-> y.v]]

Waveform_decoded(preamble, rawbuf, channel_settings, idn_line, trigger_settings, version) ==
    IF ~(InitReads \subseteq DOMAIN preamble)
    THEN [err |-> "KeyError", val |-> NoWaveform]
    ELSE IF preamble["x_step"].v = 0 THEN [err |-> "ZeroDivisionError", val |-> NoWaveform]
    ELSE Waveform_fields(preamble, rawbuf, channel_settings, idn_line, trigger_settings,
                         version, y_of(preamble, Readings(rawbuf)))

\* A faulty constructor without the format check of lines 63-64.
Waveform_init_any_format(preamble, rawbuf, channel_settings, idn_line, trigger_settings, version) ==
    Waveform_decoded(preamble, rawbuf, channel_settings, idn_line, trigger_settings, version)

Waveform_init(preamble, rawbuf, channel_settings, idn_line, trigger_settings, version) ==
    IF "format" \notin DOMAIN preamble THEN [err |-> "KeyError", val |-> NoWaveform]
    ELSE IF preamble["format"].v # 0 THEN [err |-> "ValueError", val |-> NoWaveform]
    ELSE Waveform_decoded(preamble, rawbuf, channel_settings, idn_line, trigger_settings,
                          version)

(***************************************************************************)
(* fetch_waveform(channel, trigger_settings).  ts is the optional          *)
(* argument: [some |-> FALSE] stands for None.  A local that holds a        *)
(* mapping holds a reference: the object is named by the position of the   *)
(* first command of the call that made it (_fetch_preamble,                *)
(* _fetch_channel_settings and _fetch_trigger_settings each make the       *)
(* mapping they return and send at least one command), 0 naming no object. *)
(***************************************************************************)
None == [some |-> FALSE, val |-> EmptyDict, id |-> 0]

Some(v, id) == [some |-> TRUE, val |-> v, id |-> id]

\* The object made by a call entered when the call st had come this far.
MadeAt(st) == Len(st.trace) + 1

\* A call's result r = [st, val] with its value made an optional.
SomeOf(r, id) == [st |-> r.st, val |-> Some(r.val, id)]

\* The method's locals: the running call st, what each step fetched and
\* which objects the mapping locals refer to.
Frame(st, ts) ==
    [st |-> st, preamble |-> EmptyDict, buf |-> <<>>, cset |-> EmptyDict,
     idn |-> "", ts |-> ts, ids |-> [preamble |-> 0, cset |-> 0]]

\* The local k of g refers to the mapping made by the step taken from f.
Made(f, k, g) == [g EXCEPT !.ids[k] = MadeAt(f.st)]

\* A step's result r = [st, val] stored in the local k.
Local(f, k, r) == [f EXCEPT !.st = r.st, ![k] = r.val]

\* Line 209.
fw_select(sc, f, channel) == [f EXCEPT !.st = _set_channel(sc, @, channel).st]

\* Line 210.
fw_preamble(sc, f) ==
    Made(f, "preamble", Local(f, "preamble", _fetch_preamble(sc, f.st)))

\* Lines 212-213.  The warning's f-string names `mode`, which no scope of
\* the method defines: building the message raises NameError and
\* warnings.warn is never reached.
fw_mode(f) ==
    IF f.st.err = "none" /\ f.preamble["mode"].v # 0
    THEN [f EXCEPT !.st = Raise(@, "NameError")] ELSE f

\* Line 215.
fw_data(sc, f) == Local(f, "buf", _cmd(sc, f.st, ":WAV:DATA?", RET_WAVEFORM))

\* Line 217.
fw_cset(sc, f, channel) ==
    Made(f, "cset", Local(f, "cset", _fetch_channel_settings(sc, f.st, channel)))

\* Line 218.
fw_idn(sc, f) == Local(f, "idn", _idn(sc, f.st))

\* A faulty step that fetches the trigger settings whether or not the caller
\* passed a snapshot.
fw_trigger_always(sc, f) ==
    IF f.st.err # "none" THEN f
    ELSE Local(f, "ts", SomeOf(_fetch_trigger_settings(sc, f.st), MadeAt(f.st)))

\* Lines 220-221.
fw_trigger(sc, f) ==
    IF f.ts.some \/ f.st.err # "none" THEN f
    ELSE Local(f, "ts", SomeOf(_fetch_trigger_settings(sc, f.st), MadeAt(f.st)))

\* Lines 57-61 of waveform.py: the Waveform keeps the mappings it is given,
\* not copies of them.
Referenced(f) ==
    [preamble |-> f.ids.preamble, channel_settings |-> f.ids.cset,
     trigger_settings |-> f.ts.id]

constructed(f, w) ==
    IF w.err # "none" THEN [st |-> Raise(f.st, w.err), val |-> w.val]
    ELSE [st |-> [f.st EXCEPT !.refs = Append(@, Referenced(f))], val |-> w.val]

\* Line 223.
fw_construct(f) ==
    IF f.st.err # "none" THEN [st |-> f.st, val |-> NoWaveform]
    ELSE constructed(f, Waveform_init(f.preamble, f.buf, f.cset, f.idn,
                                      f.ts.val, 1))

\* A faulty method that, when a step fails, selects CHAN1 again before the
\* exception leaves it.
restored(sc, r) ==
    IF r.st.err = "none" THEN r
    ELSE [r EXCEPT !.st.trace = Append(@, ":WAV:SOUR CHAN1")]

fetch_waveform_restoring(sc, st, channel, ts) ==
    restored(sc, fw_construct(fw_trigger(sc, fw_idn(sc, fw_cset(sc,
        fw_data(sc, fw_mode(fw_preamble(sc,
            fw_select(sc, Frame(st, ts), channel)))), channel)))))

\* A faulty order: the identity is asked before the channel's settings.
fetch_waveform_idn_first(sc, st, channel, ts) ==
    fw_construct(fw_trigger(sc, fw_cset(sc, fw_idn(sc,
        fw_data(sc, fw_mode(fw_preamble(sc,
            fw_select(sc, Frame(st, ts), channel))))), channel)))

fetch_waveform(sc, st, channel, ts) ==
    fw_construct(fw_trigger(sc, fw_idn(sc, fw_cset(sc,
        fw_data(sc, fw_mode(fw_preamble(sc,
            fw_select(sc, Frame(st, ts), channel)))), channel))))

(***************************************************************************)
(* fetch_waveforms(channels)                                               *)
(***************************************************************************)
\* A faulty loop that skips a channel whose fetch failed and goes on.
stored_skip(results, c, wf_c) ==
    [st |-> [wf_c.st EXCEPT !.err = "none"],
     val |-> IF wf_c.st.err = "none" THEN Put(results, c, wf_c.val) ELSE results]

\* Line 261.
stored(results, c, wf_c) ==
    [st |-> wf_c.st,
     val |-> IF wf_c.st.err = "none" THEN Put(results, c, wf_c.val) ELSE results]

\* Lines 259-261: the loop over the channels, r = [st, val] being the call
\* and the results so far, trigger_settings the reference every
\* fetch_waveform is given.
RECURSIVE fetch_waveforms_loop(_, _, _, _, _)
fetch_waveforms_loop(sc, r, channels, trigger_settings, i) ==
    IF i > Len(channels) \/ r.st.err # "none" THEN r
    ELSE fetch_waveforms_loop(sc,
             stored(r.val, channels[i],
                    fetch_waveform(sc, r.st, channels[i], trigger_settings)),
             channels, trigger_settings, i + 1)

returned_results(r) ==
    IF r.st.err # "none" THEN [st |-> r.st, val |-> EmptyDict] ELSE r

\* Lines 256-262, after the trigger settings are in.
fetch_channels(sc, trigger_settings, channels) ==
    returned_results(
        fetch_waveforms_loop(sc, [st |-> trigger_settings.st, val |-> EmptyDict],
                             channels, trigger_settings.val, 1))

fetch_waveforms(sc, st, channels) ==
    fetch_channels(sc, SomeOf(_fetch_trigger_settings(sc, st), MadeAt(st)), channels)

(***************************************************************************)
(* fetch_display.  It talks to the transport itself: ask_raw sends the     *)
(* query and reads 11 bytes, read_raw reads the rest and sends nothing.    *)
(* A transport call is counted as in _cmd: the first is the query, the     *)
(* second the read.                                                        *)
(***************************************************************************)
IsDigit(c) == c \in 48 .. 57

\* int(text) of a text of digits.
RECURSIVE DigitsValue(_)
DigitsValue(b) ==
    IF b = <<>> THEN 0 ELSE 10 * DigitsValue(SubSeq(b, 1, Len(b) - 1)) + (b[Len(b)] - 48)

\* Line 232.
fd_ask(sc, st) ==
    IF sc.failAt = 1
    THEN [st |-> [st EXCEPT !.trace = Append(@, ":DISP:DATA?"), !.err = "TransportError"],
          val |-> <<>>]
    ELSE [st |-> [st EXCEPT !.trace = Append(@, ":DISP:DATA?")],
          val |-> SubSeq(sc.disp, 1, HeaderLen)]

\* Lines 235-236 and 241-244: the magic byte, then int() of buf[2:].
fd_bodylen(r) ==
    IF r.st.err # "none" THEN [st |-> r.st, val |-> 0]
    ELSE IF r.val = <<>> THEN [st |-> Raise(r.st, "IndexError"), val |-> 0]
    ELSE IF r.val[1] # 35 THEN [st |-> Raise(r.st, "ValueError"), val |-> 0]
    ELSE IF Len(r.val) < 3 \/ \E i \in 3 .. Len(r.val) : ~IsDigit(r.val[i])
         THEN [st |-> Raise(r.st, "ValueError"), val |-> 0]
    ELSE [st |-> r.st, val |-> DigitsValue(SubSeq(r.val, 3, Len(r.val)))]

\* Lines 245-246: read bodylen + 1 bytes, return all but the last.
fd_read(sc, r) ==
    IF r.st.err # "none" THEN [st |-> r.st, val |-> <<>>]
    ELSE IF sc.failAt = 2 THEN [st |-> Raise(r.st, "TransportError"), val |-> <<>>]
    ELSE [st |-> r.st,
          val |-> SubSeq(sc.disp, HeaderLen + 1, HeaderLen + r.val)]

fetch_display(sc, st) == fd_read(sc, fd_bodylen(fd_ask(sc, st)))

(***************************************************************************)
(* base64.  A byte string is a sequence over 0..255; the text it encodes   *)
(* to is the sequence of the code points of its characters (what           *)
(* .decode('iso8859-1') makes of the ASCII bytes b64encode returns).       *)
(***************************************************************************)
\* The code point of the i-th character of the base64 alphabet
\* A-Z a-z 0-9 + /.
B64Char(i) ==
    CASE i < 26 -> 65 + i
      [] i < 52 -> 97 + (i - 26)
      [] i < 62 -> 48 + (i - 52)
      [] i = 62 -> 43
      [] OTHER -> 47

B64Pad == 61

B64Alphabet == {B64Char(i) : i \in 0 .. 63}

B64Index(c) == CHOOSE i \in 0 .. 63 : B64Char(i) = c

RECURSIVE b64encode(_)
b64encode(b) ==
    CASE Len(b) = 0 -> <<>>
      [] Len(b) = 1 ->
            <<B64Char(b[1] \div 4), B64Char((b[1] % 4) * 16), B64Pad, B64Pad>>
      [] Len(b) = 2 ->
            <<B64Char(b[1] \div 4), B64Char((b[1] % 4) * 16 + b[2] \div 16),
              B64Char((b[2] % 16) * 4), B64Pad>>
      [] OTHER ->
            <<B64Char(b[1] \div 4), B64Char((b[1] % 4) * 16 + b[2] \div 16),
              B64Char((b[2] % 16) * 4 + b[3] \div 64), B64Char(b[3] % 64)>>
            \o b64encode(SubSeq(b, 4, Len(b)))

\* b64decode of text made of alphabet characters and padding: four
\* characters give three bytes, a group ending in one or two pads gives two
\* or one and ends the data, and a text that stops inside a group raises
\* binascii.Error ("Incorrect padding").
RECURSIVE b64decode(_)
b64decode(s) ==
    IF Len(s) = 0 THEN [err |-> "none", val |-> <<>>]
    ELSE IF Len(s) < 4 \/ s[1] = B64Pad \/ s[2] = B64Pad
    THEN [err |-> "binascii.Error", val |-> <<>>]
    ELSE LET c1 == B64Index(s[1])
             c2 == B64Index(s[2])
         IN  IF s[3] = B64Pad
             THEN IF s[4] = B64Pad
                  THEN [err |-> "none", val |-> <<c1 * 4 + c2 \div 16>>]
                  ELSE [err |-> "binascii.Error", val |-> <<>>]
             ELSE LET c3 == B64Index(s[3])
                  IN  IF s[4] = B64Pad
                      THEN [err |-> "none",
                            val |-> <<c1 * 4 + c2 \div 16,
                                      (c2 % 16) * 16 + c3 \div 4>>]
                      ELSE LET c4 == B64Index(s[4])
                               rest == b64decode(SubSeq(s, 5, Len(s)))
                           IN  [err |-> rest.err,
                                val |-> IF rest.err = "none"
                                        THEN <<c1 * 4 + c2 \div 16,
                                               (c2 % 16) * 16 + c3 \div 4,
                                               (c3 % 4) * 64 + c4>> \o rest.val
                                        ELSE <<>>]

(***************************************************************************)
(* Waveform's JSON codec.  json.dumps / json.loads are the standard        *)
(* library's: on mappings with string keys whose values are strings,       *)
(* numbers and such mappings, loads(dumps(d)) is a fresh mapping equal to  *)
(* d, so a JSON text is carried as the mapping it denotes.  What the       *)
(* repository does around it is modelled as written: which keys the        *)
(* document gets, the base64 of the raw block, and the binding of the      *)
(* document's keys to __init__'s parameters.                               *)
(***************************************************************************)
\* A faulty document that keeps the samples only, not the raw block.
Waveform_json_dict_samples(self) ==
    [version |-> self.version,
     idn_line |-> self.idn_line,
     channel_settings |-> self.channel_settings,
     trigger_settings |-> self.trigger_settings,
     preamble |-> self.preamble,
     buf_b64 |-> b64encode(Readings(self.rawbuf))]

Waveform_json_dict(self) ==
    [version |-> self.version,
     idn_line |-> self.idn_line,
     channel_settings |-> self.channel_settings,
     trigger_settings |-> self.trigger_settings,
     preamble |-> self.preamble,
     buf_b64 |-> b64encode(self.rawbuf)]

Waveform_to_jsons(self) == Waveform_json_dict(self)

\* __init__'s parameters: cls(**dp) raises TypeError when dp has a key that
\* is no parameter, or lacks one that has no default (only version has one).
InitParams == {"preamble", "rawbuf", "channel_settings", "idn_line",
               "trigger_settings", "version"}

InitRequired == InitParams \ {"version"}

\* Line 115, cls(**dp).
\* A faulty binding that lets the identity line default to the empty text.
Waveform_kwargs_default_idn(dp) ==
    IF ~(DOMAIN dp \subseteq InitParams)
           \/ ~((InitRequired \ {"idn_line"}) \subseteq DOMAIN dp)
    THEN [err |-> "TypeError", val |-> NoWaveform]
    ELSE Waveform_init(dp["preamble"], dp["rawbuf"], dp["channel_settings"],
                       IF "idn_line" \in DOMAIN dp THEN dp["idn_line"] ELSE "",
                       dp["trigger_settings"],
                       IF "version" \in DOMAIN dp THEN dp["version"] ELSE 1)

Waveform_kwargs(dp) ==
    IF ~(DOMAIN dp \subseteq InitParams) \/ ~(InitRequired \subseteq DOMAIN dp)
    THEN [err |-> "TypeError", val |-> NoWaveform]
    ELSE Waveform_init(dp["preamble"], dp["rawbuf"], dp["channel_settings"],
                       dp["idn_line"], dp["trigger_settings"],
                       IF "version" \in DOMAIN dp THEN dp["version"] ELSE 1)

\* Lines 111-115, rawbuf = [err, val] being what b64decode made.
Waveform_from_decoded(d, rawbuf) ==
    IF rawbuf.err # "none" THEN [err |-> rawbuf.err, val |-> NoWaveform]
    ELSE Waveform_kwargs(Put(Del(d, "buf_b64"), "rawbuf", rawbuf.val))

Waveform_from_json_dict(d) ==
    IF "buf_b64" \notin DOMAIN d THEN [err |-> "KeyError", val |-> NoWaveform]
    ELSE Waveform_from_decoded(d, b64decode(d["buf_b64"]))

Waveform_from_jsons(s) == Waveform_from_json_dict(s)

(***************************************************************************)
(* WaveformBundle                                                          *)
(***************************************************************************)
NoBundle == EmptyDict

WaveformBundle_init(title, channel_names, waveforms, version) ==
    [version |-> version, channel_names |-> channel_names,
     waveforms |-> waveforms, title |-> title]

\* collect: list(channel_names.keys()) is the labels' keys in the mapping's
\* order, which the caller gives as the list `keys`.
collected(title, channel_names, waveforms) ==
    IF waveforms.st.err # "none" THEN [st |-> waveforms.st, val |-> NoBundle]
    ELSE [st |-> waveforms.st,
          val |-> WaveformBundle_init(title, channel_names, waveforms.val, 1)]

WaveformBundle_collect(sc, st, title, channel_names, keys) ==
    collected(title, channel_names, fetch_waveforms(sc, st, keys))

WaveformBundle_json_dict(self) ==
    [version |-> self.version,
     title |-> self.title,
     channel_names |-> self.channel_names,
     waveforms |-> [k \in DOMAIN self.waveforms |->
                        Waveform_json_dict(self.waveforms[k])]]

WaveformBundle_to_jsons(self) == WaveformBundle_json_dict(self)

BundleParams == {"title", "channel_names", "waveforms", "version"}

BundleRequired == BundleParams \ {"version"}

\* Line 273, cls(**dp).
WaveformBundle_kwargs(dp) ==
    IF ~(DOMAIN dp \subseteq BundleParams) \/ ~(BundleRequired \subseteq DOMAIN dp)
    THEN [err |-> "TypeError", val |-> NoBundle]
    ELSE [err |-> "none",
          val |-> WaveformBundle_init(dp["title"], dp["channel_names"],
                      dp["waveforms"],
                      IF "version" \in DOMAIN dp THEN dp["version"] ELSE 1)]

\* A faulty decoder that checks the nested documents but leaves them in the
\* bundle as they are.
WaveformBundle_from_decoded_raw(d, decoded) ==
    IF \E k \in DOMAIN decoded : decoded[k].err # "none"
    THEN [err |-> decoded[CHOOSE k \in DOMAIN decoded : decoded[k].err # "none"].err,
          val |-> NoBundle]
    ELSE WaveformBundle_kwargs(d)

\* Lines 271-273, decoded[k] = [err, val] being what the k-th nested
\* document decoded to: the first failure leaves the loop.
WaveformBundle_from_decoded(d, decoded) ==
    IF \E k \in DOMAIN decoded : decoded[k].err # "none"
    THEN [err |-> decoded[CHOOSE k \in DOMAIN decoded : decoded[k].err # "none"].err,
          val |-> NoBundle]
    ELSE WaveformBundle_kwargs(
             [d EXCEPT !.waveforms = [k \in DOMAIN decoded |-> decoded[k].val]])

WaveformBundle_from_json_dict(d) ==
    IF "waveforms" \notin DOMAIN d THEN [err |-> "KeyError", val |-> NoBundle]
    ELSE WaveformBundle_from_decoded(d,
             [k \in DOMAIN d["waveforms"] |->
                 Waveform_from_json_dict(d["waveforms"][k])])

WaveformBundle_from_jsons(s) == WaveformBundle_from_json_dict(s)

(***************************************************************************)
(* WaveformBundle._from_json_dict with its effect on the mapping d it is   *)
(* given.  dp = d.copy() copies the top level only: dp["waveforms"] is the *)
(* nested mapping of d itself, and line 272 stores each decoded Waveform   *)
(* in it.  The loop visits the names in the mapping's order, `order`.  The *)
(* result is [err, val, d]: d is the caller's mapping after the call.  An  *)
(* entry of the nested mapping is a document or, once replaced, a Waveform *)
(* object.                                                                 *)
(***************************************************************************)
WaveformObject(w) == [object |-> "Waveform", self |-> w]

\* Waveform._from_json_dict(d_wf) of an entry: d["buf_b64"] of a Waveform
\* object raises TypeError, the object is not subscriptable.
Waveform_from_entry(d_wf) ==
    IF "object" \in DOMAIN d_wf THEN [err |-> "TypeError", val |-> NoWaveform]
    ELSE Waveform_from_json_dict(d_wf)

\* Line 272, r = [err, val] being what the entry decoded to.
entry_replaced(acc, name, r) ==
    [err |-> r.err,
     waveforms |-> IF r.err = "none" THEN Put(acc.waveforms, name, WaveformObject(r.val))
                   ELSE acc.waveforms]

\* Lines 271-272: acc = [err, waveforms] is the loop so far.
RECURSIVE from_json_dict_loop(_, _, _)
from_json_dict_loop(acc, order, i) ==
    IF i > Len(order) \/ acc.err # "none" THEN acc
    ELSE from_json_dict_loop(
             entry_replaced(acc, order[i], Waveform_from_entry(acc.waveforms[order[i]])),
             order, i + 1)

\* Line 273, cls(**dp): the bundle holds the nested mapping with the
\* Waveform objects in it.
bundle_of_entries(d, acc) ==
    WaveformBundle_kwargs(
        [d EXCEPT !.waveforms = [k \in DOMAIN acc.waveforms |-> acc.waveforms[k].self]])

from_json_dict_result(d, acc) ==
    [err |-> IF acc.err # "none" THEN acc.err ELSE bundle_of_entries(d, acc).err,
     val |-> IF acc.err # "none" THEN NoBundle ELSE bundle_of_entries(d, acc).val,
     d   |-> [d EXCEPT !.waveforms = acc.waveforms]]

WaveformBundle_from_json_dict_in_place(d, order) ==
    IF "waveforms" \notin DOMAIN d THEN [err |-> "KeyError", val |-> NoBundle, d |-> d]
    ELSE from_json_dict_result(d,
             from_json_dict_loop([err |-> "none", waveforms |-> d["waveforms"]], order, 1))

(***************************************************************************)
(* Inputs: what the instrument answers and what the caller passes.         *)
(***************************************************************************)
\* Replies to :TRIG:MODE? and :CALC:MODE?: every sub-mode of the tables and
\* one the table does not have.
TrigReplies == (DOMAIN TrigSubfamSettings) \cup {"DUR"}

CalcReplies == (DOMAIN CalcSubfamSettings) \cup {"INTG"}

\* For the calls that capture whole waveforms: a validated sub-mode, an
\* unvalidated one and an unknown one of each subsystem.
TrigSample == {"EDGE", "PULS", "DUR"}

CalcSample == {"SUB", "ADD", "INTG"}

FailPoints == 0 .. MaxFailAt

Rots == 0 .. MaxRot

SampleValues == {120, 255}

SampleSeqs == UNION {[1 .. n -> SampleValues] : n \in 0 .. MaxPoints}

\* The data block of the instrument, "#9" and nine digits of length, the
\* samples, a newline.
Digit(n, k) == 48 + ((n \div (10 ^ k)) % 10)

Block(samples) ==
    <<35, 57>> \o [i \in 1 .. 9 |-> Digit(Len(samples), 9 - i)] \o samples \o <<10>>

\* The reply to :DISP:DATA?: the same framing around the bitmap's bytes.
\* The instruments of the model answer with a bitmap of two bytes, with
\* another first byte, or with a length that is no number.
GoodDisplay == Block(<<7, 9>>)

Displays ==
    {GoodDisplay,
     [GoodDisplay EXCEPT ![1] = 36],
     [GoodDisplay EXCEPT ![11] = 120]}

\* Blocks cut short of header and terminator.
ShortBlocks == {<<>>, <<35, 57, 48>>}

F(v) == [num |-> TRUE, v |-> v]

\* The preamble line of a screen with n points: x_step 2, x_origin -3,
\* y_step 4, y_origin 5, and the instrument's fixed references 0 and 127.
PreLine(fmt, mode, n, dx) ==
    <<F(fmt), F(mode), F(n), F(1), F(dx), F(0 - 3), F(0), F(4), F(5), F(127)>>

\* Lines _parse_preamble rejects (nine fields, eleven fields, a field that
\* is no number) and one with a zero x_step.
BadLines ==
    {SubSeq(PreLine(0, 0, 0, 2), 1, 9),
     PreLine(0, 0, 0, 2) \o <<F(0)>>,
     [PreLine(0, 0, 0, 2) EXCEPT ![3] = [num |-> FALSE, v |-> 0]],
     PreLine(0, 0, 0, 0)}

Screens ==
    {[pre |-> PreLine(f, m, Len(s), 2), blk |-> Block(s)] :
        f \in {0, 1}, m \in {0, 1}, s \in SampleSeqs}
    \cup {[pre |-> PreLine(0, 0, Len(s) + 1, 2), blk |-> Block(s)] : s \in SampleSeqs}
    \cup {[pre |-> PreLine(0, 0, 0, 2), blk |-> b] : b \in ShortBlocks}
    \cup {[pre |-> l, blk |-> Block(<<>>)] : l \in BadLines}

GoodScreen == [pre |-> PreLine(0, 0, 1, 2), blk |-> Block(<<120>>)]

Scope0 == [trig |-> "EDGE", calc |-> "SUB", pre |-> GoodScreen.pre,
           blk |-> GoodScreen.blk, disp |-> GoodDisplay, rot |-> 0, failAt |-> 0]

\* The instruments a waveform capture of the channels chs is run against,
\* each differing from Scope0 in one respect: the sub-modes and the set
\* order, the screen, or the point where the transport fails.  The computed
\* channel's sub-mode and the set order matter only when MATH is captured.
Scopes(chs) ==
    LET calcs == IF "MATH" \in chs THEN CalcSample ELSE {"SUB"}
        rots  == IF "MATH" \in chs THEN Rots ELSE {0}
    IN  {[Scope0 EXCEPT !.trig = t, !.calc = c, !.rot = r] :
            t \in TrigSample, c \in calcs, r \in rots}
        \cup {[Scope0 EXCEPT !.pre = s.pre, !.blk = s.blk] : s \in Screens}
        \cup {[Scope0 EXCEPT !.failAt = f] : f \in FailPoints \ {0}}

\* Prefixes and token lists handed to _fetch_settings: the lists of the
\* driver and lists with a token repeated.
Prefixes == {"CHAN1", "TRIG", "TRIG:EDGE"}

TokenLists ==
    {<<>>, <<"MODE">>, <<"LEV", "SLOP", "SOUR">>, <<"STAT", "LEV", "STAT">>,
     <<"SOUR", "SOUR">>, TrigSettings, ChannelSettings}

\* Texts handed to _parse_preamble.  A field of a text is written with what
\* it is: a number with its value, or no number.
T(s, num, v) == [s |-> s, num |-> num, v |-> v]

FieldTexts ==
    {T(<<"0">>, TRUE, 0), T(<<"1", "2", "7">>, TRUE, 127), T(<<"-", "3">>, TRUE, 0 - 3),
     T(<<"+", "5">>, TRUE, 5), T(<<" ", "7", " ">>, TRUE, 7),
     T(<<>>, FALSE, 0), T(<<"x">>, FALSE, 0), T(<<"1", "x">>, FALSE, 0),
     T(<<"-">>, FALSE, 0), T(<<"1", " ", "2">>, FALSE, 0), T(<<"-", "-", "1">>, FALSE, 0)}

GoodFields ==
    <<T(<<"0">>, TRUE, 0), T(<<"1">>, TRUE, 1), T(<<"2">>, TRUE, 2), T(<<"3">>, TRUE, 3),
      T(<<"4">>, TRUE, 4), T(<<"-", "5">>, TRUE, 0 - 5), T(<<"6">>, TRUE, 6),
      T(<<"7">>, TRUE, 7), T(<<"8">>, TRUE, 8), T(<<"1", "2", "7">>, TRUE, 127)>>

\* The good line, the good line with one field replaced, and lines of 0 to
\* 9 and of 11 fields.
FieldLists ==
    {[GoodFields EXCEPT ![i] = f] : i \in 1 .. 10, f \in FieldTexts}
    \cup {SubSeq(GoodFields, 1, n) : n \in 0 .. 10}
    \cup {GoodFields \o <<f>> : f \in FieldTexts}

\* The text of a list of fields: the fields with commas between them.
RECURSIVE Join(_)
Join(fields) ==
    IF fields = <<>> THEN <<>>
    ELSE IF Len(fields) = 1 THEN fields[1].s
    ELSE fields[1].s \o <<",">> \o Join(Tail(fields))

\* The NumPy of the installation: before 2.0, or 2.0 and later.
NumpyBuilds == {"legacy", "nep50"}

ChannelIds == {"CHAN1", "CHAN3", "MATH", "FFT"}

ChannelLists == UNION {[1 .. n -> ChannelIds] : n \in 0 .. MaxChannels}

\* The key lists of a channel_names mapping: no key twice.
KeyLists == {l \in ChannelLists : \A i, j \in DOMAIN l : i # j => l[i] # l[j]}

Label(c) == "label of " \o c

Titles == {"Fader at midpt"}

(***************************************************************************)
(* Documents read back are documents written, or one of these changes of   *)
(* one (a file is any text).                                               *)
(***************************************************************************)
WaveformKeys == {"idn_line", "channel_settings", "trigger_settings", "preamble", "buf_b64"}

\* "drop_" and a key: the document without that key.
Drops(keys) == {"drop_" \o k : k \in keys}

Dropped(keys, e) == CHOOSE k \in keys : e = "drop_" \o k

WaveformEdits ==
    {"same", "version2", "format1", "cut_b64", "cut_block", "ints", "ints_y130"}
    \cup Drops(WaveformKeys)

\* The preamble as a writer that prints 5 for 5.0 leaves it: every number a
\* JSON integer.
AsInts(preamble) == [k \in DOMAIN preamble |-> PyInt(preamble[k].v)]

EditWaveformDoc(d, e) ==
    CASE e = "version2" -> [d EXCEPT !.version = 2]
      [] e = "format1" -> [d EXCEPT !.preamble = Put(@, "format", PyFloat(1))]
      [] e = "cut_b64" -> [d EXCEPT !.buf_b64 = SubSeq(@, 1, Len(@) - 1)]
      [] e = "cut_block" ->
            [d EXCEPT !.buf_b64 =
                LET raw == b64decode(@).val
                IN  b64encode(SubSeq(raw, 1, Len(raw) - 2) \o <<10>>)]
      [] e = "ints" -> [d EXCEPT !.preamble = AsInts(@)]
      [] e = "ints_y130" ->
            [d EXCEPT !.preamble =
                [AsInts(@) EXCEPT !["y_origin"] = PyInt(130), !["y_step"] = PyInt(1)]]
      [] e \in Drops(WaveformKeys) -> Del(d, Dropped(WaveformKeys, e))
      [] OTHER -> d

BundleKeys == {"title", "channel_names", "waveforms"}

BundleEdits ==
    {"same", "version2", "wf_version2", "wf_format1", "wf_drop_preamble"}
    \cup Drops(BundleKeys)

EditBundleDoc(d, e) ==
    CASE e = "version2" -> [d EXCEPT !.version = 2]
      [] e = "wf_version2" ->
            [d EXCEPT !.waveforms =
                [k \in DOMAIN @ |-> EditWaveformDoc(@[k], "version2")]]
      [] e = "wf_format1" ->
            [d EXCEPT !.waveforms =
                [k \in DOMAIN @ |-> EditWaveformDoc(@[k], "format1")]]
      [] e = "wf_drop_preamble" ->
            [d EXCEPT !.waveforms =
                [k \in DOMAIN @ |-> EditWaveformDoc(@[k], "drop_preamble")]]
      [] e \in Drops(BundleKeys) -> Del(d, Dropped(BundleKeys, e))
      [] OTHER -> d

(***************************************************************************)
(* The instrument's side of _set_channel: ":WAV:SOUR c" makes c the        *)
(* selected waveform source, and no other command of the program changes   *)
(* it.  A command on which the transport raised may or may not have        *)
(* reached the instrument.                                                 *)
(***************************************************************************)
IsSelect(c) == c \in {":WAV:SOUR " \o ch : ch \in ChannelIds}

ChannelOf(c) == CHOOSE ch \in ChannelIds : c = ":WAV:SOUR " \o ch

\* The selected source once the first n commands of q have arrived, src
\* being the source before them.
RECURSIVE Selected(_, _, _)
Selected(src, q, n) ==
    IF n = 0 THEN src
    ELSE IF IsSelect(q[n]) THEN ChannelOf(q[n])
    ELSE Selected(src, q, n - 1)

\* The sources the instrument can be left with by a call that ended as st.
Sources(src, st) ==
    {Selected(src, st.trace, Len(st.trace))}
    \cup IF st.err = "TransportError" /\ st.trace # <<>>
         THEN {Selected(src, st.trace, Len(st.trace) - 1)} ELSE {}

(***************************************************************************)
(* The state machine.  The driver keeps no state of its own between calls: *)
(* the variables are the caller's view of the last call (op, arg, trace,   *)
(* warns, err, and the value returned in settings, wfs, bundle, doc or     *)
(* ret, the last for calls that return bytes or a preamble) and            *)
(* the objects it still holds for the codec (wfs, bundle, doc; docOf is    *)
(* the object doc was written from).  numpy is the NumPy the program runs  *)
(* with, which never changes; source is the instrument's selected waveform *)
(* source, of which the caller knows nothing at first; refs names, for     *)
(* each Waveform the last capture constructed and in the order of their    *)
(* construction, the mapping objects the Waveform refers to (the objects   *)
(* a load makes are not followed); mapping is the document mapping the     *)
(* caller parsed and handed to WaveformBundle._from_json_dict, as the      *)
(* call left it.  A call on the                                            *)
(* instrument starts from                                                  *)
(* a caller who holds nothing; Forget is the caller dropping what it       *)
(* holds, after which the next call can start.                             *)
(***************************************************************************)
Init ==
    /\ op = "init"
    /\ arg = [sc |-> Scope0]
    /\ trace = <<>>
    /\ warns = <<>>
    /\ err = "none"
    /\ settings = EmptyDict
    /\ wfs = EmptyDict
    /\ bundle = NoBundle
    /\ doc = EmptyDict
    /\ docOf = EmptyDict
    /\ ret = <<>>
    /\ numpy \in NumpyBuilds
    /\ source \in ChannelIds
    /\ refs = <<>>
    /\ mapping = EmptyDict

\* What a call leaves behind: r = [st, val] is how the call ended and what
\* it returned, kind the variable the caller keeps the value in.
Returned(name, a, r, kind) ==
    /\ op' = name
    /\ arg' = a
    /\ trace' = r.st.trace
    /\ warns' = r.st.warns
    /\ err' = r.st.err
    /\ settings' = IF kind = "settings" /\ r.st.err = "none" THEN r.val ELSE EmptyDict
    /\ wfs' = IF kind = "wfs" THEN r.val ELSE EmptyDict
    /\ bundle' = IF kind = "bundle" THEN r.val ELSE NoBundle
    /\ doc' = EmptyDict
    /\ docOf' = EmptyDict
    /\ ret' = IF kind = "ret" /\ r.st.err = "none" THEN r.val ELSE <<>>
    /\ source' \in Sources(source, r.st)
    /\ refs' = IF r.st.err = "none" THEN r.st.refs ELSE <<>>
    /\ UNCHANGED <<numpy, mapping>>

TrigScope(m, f) == [Scope0 EXCEPT !.trig = m, !.failAt = f]

Call_fetch_trigger_settings ==
    /\ op = "init"
    /\ \E m \in TrigReplies, f \in FailPoints :
        Returned("_fetch_trigger_settings", [sc |-> TrigScope(m, f)],
                 _fetch_trigger_settings(TrigScope(m, f), Ctx0), "settings")

CalcScope(m, rot, f) == [Scope0 EXCEPT !.calc = m, !.rot = rot, !.failAt = f]

Call_fetch_calc_settings ==
    /\ op = "init"
    /\ \E m \in CalcReplies, rot \in Rots, f \in FailPoints :
        Returned("_fetch_calc_settings", [sc |-> CalcScope(m, rot, f)],
                 _fetch_calc_settings(CalcScope(m, rot, f), Ctx0), "settings")

\* _fetch_channel_settings(channel): the screen plays no part, the computed
\* channel's sub-mode and the transport do.
Call_fetch_channel_settings ==
    /\ op = "init"
    /\ \E channel \in ChannelIds, m \in CalcSample, rot \in Rots, f \in FailPoints :
        Returned("_fetch_channel_settings",
                 [sc |-> CalcScope(m, rot, f), channels |-> <<channel>>],
                 _fetch_channel_settings(CalcScope(m, rot, f), Ctx0, channel), "settings")

DisplayScope(d, f) == [Scope0 EXCEPT !.disp = d, !.failAt = f]

Call_fetch_display ==
    /\ op = "init"
    /\ \E d \in Displays, f \in FailPoints :
        Returned("fetch_display", [sc |-> DisplayScope(d, f)],
                 fetch_display(DisplayScope(d, f), Ctx0), "ret")

Call_fetch_settings ==
    /\ op = "init"
    /\ \E prefix \in Prefixes, slist \in TokenLists, m \in TrigSample, f \in FailPoints :
        Returned("_fetch_settings",
                 [sc |-> TrigScope(m, f), prefix |-> prefix, slist |-> slist],
                 _fetch_settings(TrigScope(m, f), Ctx0, prefix, slist), "settings")

\* _parse_preamble(text) talks to no instrument.
parse_returned(p) == [st |-> Raise(Ctx0, p.err), val |-> p.val]

Call_parse_preamble ==
    /\ op = "init"
    /\ \E fields \in FieldLists :
        Returned("_parse_preamble", [fields |-> fields, text |-> Join(fields)],
                 parse_returned(_parse_preamble(split_floats(Join(fields)))), "ret")

\* The caller keeps the one Waveform under its channel.
Single(channel, r) ==
    [st |-> r.st,
     val |-> IF r.st.err = "none" THEN Put(EmptyDict, channel, r.val) ELSE EmptyDict]

\* fetch_waveform(channel): trigger_settings is left at its default, None.
Call_fetch_waveform ==
    /\ op = "init"
    /\ \E channel \in ChannelIds :
        \E sc \in Scopes({channel}) :
            Returned("fetch_waveform", [sc |-> sc, channels |-> <<channel>>],
                     Single(channel, fetch_waveform(sc, Ctx0, channel, None)), "wfs")

Call_fetch_waveforms ==
    /\ op = "init"
    /\ \E channels \in ChannelLists :
        \E sc \in Scopes(Range(channels)) :
            Returned("fetch_waveforms", [sc |-> sc, channels |-> channels],
                     fetch_waveforms(sc, Ctx0, channels), "wfs")

Labels(keys) == [c \in Range(keys) |-> Label(c)]

Call_collect ==
    /\ op = "init"
    /\ \E keys \in KeyLists, title \in Titles :
        \E sc \in Scopes(Range(keys)) :
            Returned("collect",
                     [sc |-> sc, channels |-> keys, title |-> title,
                      channel_names |-> Labels(keys)],
                     WaveformBundle_collect(sc, Ctx0, title, Labels(keys), keys),
                     "bundle")

\* w.to_jsons() of a Waveform the caller got from a capture or a load.
Call_to_jsons ==
    /\ op \in {"fetch_waveform", "fetch_waveforms", "from_jsons"}
    /\ err = "none"
    /\ \E c \in DOMAIN wfs :
        /\ op' = "to_jsons"
        /\ arg' = [key |-> c]
        /\ doc' = Waveform_to_jsons(wfs[c])
        /\ docOf' = wfs[c]
    /\ err' = "none"
    /\ trace' = <<>> /\ warns' = <<>>
    /\ UNCHANGED <<settings, wfs, bundle, ret, numpy, source, refs, mapping>>

Loaded(r) == IF r.err = "none" THEN Put(EmptyDict, "loaded", r.val) ELSE EmptyDict

Decoded(name, e, s, r, kind) ==
    /\ op' = name
    /\ arg' = [edit |-> e, s |-> s]
    /\ err' = r.err
    /\ wfs' = IF kind = "wfs" THEN Loaded(r) ELSE wfs
    /\ bundle' = IF kind = "bundle" THEN r.val ELSE bundle
    /\ trace' = <<>> /\ warns' = <<>>
    /\ refs' = <<>>
    /\ UNCHANGED <<settings, doc, docOf, ret, numpy, source, mapping>>

\* Waveform.from_jsons(s) of a text written by to_jsons, possibly changed.
\* A text is changed once: the text of a Waveform that was itself loaded
\* is read back as it is.
EditsOf(key, edits) == IF key = "loaded" THEN {"same"} ELSE edits

Call_from_jsons ==
    /\ op = "to_jsons"
    /\ \E e \in EditsOf(arg.key, WaveformEdits) :
        Decoded("from_jsons", e, EditWaveformDoc(doc, e),
                Waveform_from_jsons(EditWaveformDoc(doc, e)), "wfs")

Call_bundle_to_jsons ==
    /\ op \in {"collect", "bundle_from_jsons"}
    /\ err = "none"
    /\ op' = "bundle_to_jsons"
    /\ arg' = [key |-> IF op = "collect" THEN "collected" ELSE "loaded"]
    /\ doc' = WaveformBundle_to_jsons(bundle)
    /\ docOf' = bundle
    /\ err' = "none"
    /\ trace' = <<>> /\ warns' = <<>>
    /\ UNCHANGED <<settings, wfs, bundle, ret, numpy, source, refs, mapping>>

Call_bundle_from_jsons ==
    /\ op = "bundle_to_jsons"
    /\ \E e \in EditsOf(arg.key, BundleEdits) :
        Decoded("bundle_from_jsons", e, EditBundleDoc(doc, e),
                WaveformBundle_from_jsons(EditBundleDoc(doc, e)), "bundle")

\* The orders in which a mapping with the keys S can list them.
Orders(S) ==
    {o \in [1 .. Cardinality(S) -> S] : \A i, j \in DOMAIN o : i # j => o[i] # o[j]}

\* What a call of WaveformBundle._from_json_dict(d) leaves behind: r is
\* [err, val, d], s the mapping before the first call on it, first the
\* outcome of that first call when this is the second.
DecodedInPlace(e, s, nth, first, r) ==
    /\ op' = "bundle_from_json_dict"
    /\ arg' = [edit |-> e, s |-> s, nth |-> nth, first |-> first]
    /\ err' = r.err
    /\ bundle' = r.val
    /\ mapping' = r.d
    /\ trace' = <<>> /\ warns' = <<>>
    /\ refs' = <<>>
    /\ UNCHANGED <<settings, wfs, doc, docOf, ret, numpy, source>>

NoOutcome == [err |-> "none", val |-> NoBundle]

\* d = json.loads(s) of a text written by to_jsons, possibly changed, then
\* WaveformBundle._from_json_dict(d): the caller keeps d.
Call_bundle_from_json_dict ==
    /\ op = "bundle_to_jsons"
    /\ \E e \in EditsOf(arg.key, BundleEdits) :
        \E order \in Orders(IF "waveforms" \in DOMAIN EditBundleDoc(doc, e)
                             THEN DOMAIN EditBundleDoc(doc, e).waveforms ELSE {}) :
            DecodedInPlace(e, EditBundleDoc(doc, e), 1, NoOutcome,
                WaveformBundle_from_json_dict_in_place(EditBundleDoc(doc, e), order))

\* WaveformBundle._from_json_dict(d) again, of the mapping the caller kept.
Call_bundle_from_json_dict_again ==
    /\ op = "bundle_from_json_dict"
    /\ arg.nth = 1
    /\ \E order \in Orders(IF "waveforms" \in DOMAIN mapping
                             THEN DOMAIN mapping.waveforms ELSE {}) :
        DecodedInPlace(arg.edit, arg.s, 2, [err |-> err, val |-> bundle],
            WaveformBundle_from_json_dict_in_place(mapping, order))

Forget ==
    /\ op # "init"
    /\ op' = "init"
    /\ arg' = [sc |-> Scope0]
    /\ trace' = <<>> /\ warns' = <<>> /\ err' = "none"
    /\ settings' = EmptyDict /\ wfs' = EmptyDict /\ bundle' = NoBundle
    /\ doc' = EmptyDict /\ docOf' = EmptyDict
    /\ ret' = <<>> /\ refs' = <<>> /\ mapping' = EmptyDict
    /\ UNCHANGED <<numpy, source>>

Next ==
    \/ Call_fetch_trigger_settings
    \/ Call_fetch_calc_settings
    \/ Call_fetch_settings
    \/ Call_parse_preamble
    \/ Call_fetch_channel_settings
    \/ Call_fetch_display
    \/ Call_fetch_waveform
    \/ Call_fetch_waveforms
    \/ Call_collect
    \/ Call_to_jsons
    \/ Call_from_jsons
    \/ Call_bundle_to_jsons
    \/ Call_bundle_from_jsons
    \/ Call_bundle_from_json_dict
    \/ Call_bundle_from_json_dict_again
    \/ Forget

Spec == Init /\ [][Next]_vars

(***************************************************************************)
(* Vocabulary of the properties.                                           *)
(***************************************************************************)
IsPrefix(p, q) == Len(p) <= Len(q) /\ SubSeq(q, 1, Len(p)) = p

\* Every query of the trigger subsystem the tables can produce.
TrigQueries ==
    {":TRIG:" \o t \o "?" : t \in Range(TrigSettings)}
    \cup UNION {{":TRIG:" \o m \o ":" \o t \o "?" : t \in Range(TrigSubfamSettings[m])} :
                   m \in DOMAIN TrigSubfamSettings}

IsTrigQuery(c) == c \in TrigQueries

\* One trigger-settings fetch when :TRIG:MODE? answers m: the top-level
\* batch, then the batch of m (none when the table has no m).
TopBatch == [i \in 1 .. Len(TrigSettings) |-> ":TRIG:" \o TrigSettings[i] \o "?"]

SubBatch(m) ==
    IF m \in DOMAIN TrigSubfamSettings
    THEN [i \in 1 .. Len(TrigSubfamSettings[m]) |->
             ":TRIG:" \o m \o ":" \o TrigSubfamSettings[m][i] \o "?"]
    ELSE <<>>

OneTrigFetch(m) == TopBatch \o SubBatch(m)

\* The Waveforms a capture or a load handed to the caller.
Held ==
    IF op \in {"fetch_waveform", "fetch_waveforms", "from_jsons"} /\ err = "none"
    THEN {wfs[c] : c \in DOMAIN wfs}
    ELSE IF op \in {"collect", "bundle_from_jsons"} /\ err = "none"
    THEN {bundle.waveforms[c] : c \in DOMAIN bundle.waveforms}
    ELSE {}

\* The instrument's preamble line is one _parse_preamble accepts.
LineOk(sc) == Len(sc.pre) = 10 /\ \A i \in 1 .. 10 : sc.pre[i].num

(***************************************************************************)
(* C1.  Round trip of one Waveform: from_jsons(w.to_jsons()) succeeds and  *)
(* gives a Waveform with w's version, preamble, channel settings, trigger  *)
(* settings, identity and raw block, and with the samples, times and       *)
(* voltages that decoding w's raw block with w's preamble gives.           *)
(***************************************************************************)
C1_RoundTrip ==
    (op = "from_jsons" /\ arg.edit = "same") =>
        /\ err = "none"
        /\ wfs["loaded"].version = docOf.version
        /\ wfs["loaded"].preamble = docOf.preamble
        /\ wfs["loaded"].channel_settings = docOf.channel_settings
        /\ wfs["loaded"].trigger_settings = docOf.trigger_settings
        /\ wfs["loaded"].idn_line = docOf.idn_line
        /\ wfs["loaded"].rawbuf = docOf.rawbuf
        /\ wfs["loaded"].readings = docOf.readings
        /\ wfs["loaded"].t = docOf.t
        /\ wfs["loaded"].y = docOf.y
        /\ wfs["loaded"].Fs = docOf.Fs

C1_Witness ==
    /\ op = "from_jsons" /\ arg.edit = "same" /\ err = "none"
    /\ Len(docOf.readings) = 2
    /\ docOf.readings[1] # docOf.readings[2]
    /\ "SUB" \in DOMAIN docOf.channel_settings

(***************************************************************************)
(* C2.  fetch_waveforms and WaveformBundle.collect fetch the trigger       *)
(* settings exactly once for the whole list of channels, whatever its      *)
(* length: the trace starts with one top-level TRIG batch and one sub-mode *)
(* batch and has no other trigger query, and every Waveform returned       *)
(* carries the mapping that one fetch produced.                            *)
(***************************************************************************)
\* The mapping made from the replies to the batch's queries, which are the
\* first commands of the call: a token asked more than once keeps the reply
\* to its last query.
Snapshot(m) ==
    [k \in Range(TrigSettings) \cup {m} |->
        IF k = m
        THEN [t \in Range(TrigSubfamSettings[m]) |->
                 "r" \o ToString(Len(TrigSettings)
                     + CHOOSE i \in 1 .. Len(TrigSubfamSettings[m]) :
                           TrigSubfamSettings[m][i] = t)]
        ELSE IF k = "MODE" THEN m
        ELSE "r" \o ToString(CHOOSE i \in 1 .. Len(TrigSettings) :
                                 /\ TrigSettings[i] = k
                                 /\ \A j \in (i + 1) .. Len(TrigSettings) :
                                        TrigSettings[j] # k)]

C2_OneTriggerFetch ==
    (op \in {"fetch_waveforms", "collect"}) =>
        /\ IsPrefix(SelectSeq(trace, IsTrigQuery), OneTrigFetch(arg.sc.trig))
        /\ err = "none" =>
            /\ IsPrefix(OneTrigFetch(arg.sc.trig), trace)
            /\ SelectSeq(trace, IsTrigQuery) = OneTrigFetch(arg.sc.trig)
            /\ \A w \in Held : w.trigger_settings = Snapshot(arg.sc.trig)

C2_Witness ==
    /\ op = "collect" /\ err = "none"
    /\ Len(arg.channels) = 2
    /\ Cardinality(Held) = 2
    /\ arg.sc.trig = "PULS"

(***************************************************************************)
(* C3.  Every fetch_waveform that succeeds sends its commands in this      *)
(* order: channel select, preamble query, data-block query, the channel's  *)
(* settings queries, identity query, and then, when it was given no        *)
(* snapshot, the trigger-settings queries.                                 *)
(***************************************************************************)
\* The settings queries of channel c: for MATH the computed channel's MODE
\* query and then, each once and in any order, the queries of the sub-mode
\* m; for another channel the 14 queries in the order of the list.
IsChannelBatch(q, c, m) ==
    IF c = "MATH"
    THEN /\ m \in DOMAIN CalcSubfamSettings
         /\ Len(q) = 1 + Cardinality(CalcSubfamSettings[m])
         /\ q[1] = ":CALC:MODE?"
         /\ {q[i] : i \in 2 .. Len(q)}
                = {":CALC:" \o m \o ":" \o t \o "?" : t \in CalcSubfamSettings[m]}
    ELSE q = [i \in 1 .. Len(ChannelSettings) |->
                 ":" \o c \o ":" \o ChannelSettings[i] \o "?"]

\* q is the command sequence of one capture of channel c, its trigger
\* queries being tail.
IsCapture(q, c, m, tail) ==
    /\ Len(q) >= 4 + Len(tail)
    /\ q[1] = ":WAV:SOUR " \o c
    /\ q[2] = ":WAV:PRE?"
    /\ q[3] = ":WAV:DATA?"
    /\ IsChannelBatch(SubSeq(q, 4, Len(q) - Len(tail) - 1), c, m)
    /\ q[Len(q) - Len(tail)] = "*IDN?"
    /\ SubSeq(q, Len(q) - Len(tail) + 1, Len(q)) = tail

\* q is the concatenation of the captures of the channels chs, none with
\* trigger queries.
RECURSIVE AreCaptures(_, _, _)
AreCaptures(q, chs, m) ==
    IF chs = <<>> THEN q = <<>>
    ELSE \E n \in 4 .. Len(q) :
            /\ IsCapture(SubSeq(q, 1, n), Head(chs), m, <<>>)
            /\ AreCaptures(SubSeq(q, n + 1, Len(q)), Tail(chs), m)

C3_CaptureOrder ==
    /\ (op = "fetch_waveform" /\ err = "none") =>
          IsCapture(trace, arg.channels[1], arg.sc.calc, OneTrigFetch(arg.sc.trig))
    /\ (op \in {"fetch_waveforms", "collect"} /\ err = "none") =>
          AreCaptures(SubSeq(trace, Len(OneTrigFetch(arg.sc.trig)) + 1, Len(trace)),
                      arg.channels, arg.sc.calc)

C3_Witness ==
    /\ op = "fetch_waveform" /\ err = "none"
    /\ arg.channels = <<"MATH">>
    /\ arg.sc.calc = "ADD" /\ arg.sc.rot = 1
    /\ arg.sc.trig = "PULS"

(***************************************************************************)
(* C4.  Two-phase fetch of the trigger (TRIG) and computed-channel (CALC)  *)
(* settings: when :<PREFIX>:MODE? answers a mode m of the table, phase 2   *)
(* sends exactly one query :<PREFIX>:<m>:<token>? per parameter declared   *)
(* for m, and the mapping returned has the top-level keys with the replies *)
(* of phase 1 and, under the key m, a mapping whose keys are exactly the   *)
(* declared parameters; for EDGE these are LEV, SLOP and SOUR.             *)
(***************************************************************************)
\* q holds each of the queries of the parameters ps once, and nothing else.
OnePerParameter(q, prefix, m, ps) ==
    /\ Len(q) = Cardinality(ps)
    /\ {q[i] : i \in 1 .. Len(q)} = {":" \o prefix \o ":" \o m \o ":" \o t \o "?" : t \in ps}

C4_TwoPhase ==
    /\ (op = "_fetch_trigger_settings" /\ arg.sc.failAt = 0
            /\ arg.sc.trig \in DOMAIN TrigSubfamSettings) =>
        /\ err = "none"
        /\ SubSeq(trace, 1, Len(TrigSettings)) = TopBatch
        /\ OnePerParameter(SubSeq(trace, Len(TrigSettings) + 1, Len(trace)), "TRIG",
                           arg.sc.trig, Range(TrigSubfamSettings[arg.sc.trig]))
        /\ DOMAIN settings = Range(TrigSettings) \cup {arg.sc.trig}
        /\ DOMAIN settings[arg.sc.trig] = Range(TrigSubfamSettings[arg.sc.trig])
        /\ \A k \in Range(TrigSettings) : settings[k] = Snapshot(arg.sc.trig)[k]
        /\ arg.sc.trig = "EDGE" =>
            /\ SubSeq(trace, Len(TrigSettings) + 1, Len(trace))
                   = <<":TRIG:EDGE:LEV?", ":TRIG:EDGE:SLOP?", ":TRIG:EDGE:SOUR?">>
            /\ DOMAIN settings["EDGE"] = {"LEV", "SLOP", "SOUR"}
    /\ (op = "_fetch_calc_settings" /\ arg.sc.failAt = 0
            /\ arg.sc.calc \in DOMAIN CalcSubfamSettings) =>
        /\ err = "none"
        /\ trace[1] = ":CALC:MODE?"
        /\ OnePerParameter(SubSeq(trace, 2, Len(trace)), "CALC",
                           arg.sc.calc, CalcSubfamSettings[arg.sc.calc])
        /\ DOMAIN settings = {"MODE", arg.sc.calc}
        /\ settings["MODE"] = arg.sc.calc
        /\ DOMAIN settings[arg.sc.calc] = CalcSubfamSettings[arg.sc.calc]

C4_Witness ==
    /\ op = "_fetch_trigger_settings" /\ err = "none"
    /\ arg.sc.trig = "EDGE"
    /\ Len(trace) = 11
    /\ "EDGE" \in DOMAIN settings

(***************************************************************************)
(* C5.  When :<PREFIX>:MODE? answers a mode the table does not have, the   *)
(* fetch ends in an error that reaches the caller: no query of phase 2 is  *)
(* sent and no settings mapping is returned.                               *)
(***************************************************************************)
C5_UnknownMode ==
    /\ (op = "_fetch_trigger_settings" /\ arg.sc.failAt = 0
            /\ arg.sc.trig \notin DOMAIN TrigSubfamSettings) =>
        /\ err = "KeyError"
        /\ trace = TopBatch
        /\ settings = EmptyDict
    /\ (op = "_fetch_calc_settings" /\ arg.sc.failAt = 0
            /\ arg.sc.calc \notin DOMAIN CalcSubfamSettings) =>
        /\ err = "KeyError"
        /\ trace = <<":CALC:MODE?">>
        /\ settings = EmptyDict
    /\ (op \in {"fetch_waveform", "fetch_waveforms", "collect"}
            /\ err = "none" /\ Held # {}) =>
        arg.sc.trig \in DOMAIN TrigSubfamSettings

C5_Witness ==
    /\ op = "_fetch_trigger_settings"
    /\ arg.sc.trig = "DUR" /\ arg.sc.failAt = 0
    /\ err = "KeyError"
    /\ Len(trace) = 8

(***************************************************************************)
(* C6.  A mode the table has but that was not validated is accepted: one   *)
(* warning is emitted, phase 2 runs and the complete merged mapping is     *)
(* returned.  The validated modes, EDGE for the trigger and SUB for the    *)
(* computed channel, give no warning.                                      *)
(***************************************************************************)
C6_UntestedMode ==
    /\ (op = "_fetch_trigger_settings" /\ arg.sc.failAt = 0
            /\ arg.sc.trig \in DOMAIN TrigSubfamSettings) =>
        /\ err = "none"
        /\ warns = IF arg.sc.trig = "EDGE" THEN <<>>
                   ELSE <<"Capturing state of trigger mode " \o arg.sc.trig \o " is untested">>
        /\ Len(trace) = Len(TrigSettings) + Len(TrigSubfamSettings[arg.sc.trig])
        /\ settings = Snapshot(arg.sc.trig)
    /\ (op = "_fetch_calc_settings" /\ arg.sc.failAt = 0
            /\ arg.sc.calc \in DOMAIN CalcSubfamSettings) =>
        /\ err = "none"
        /\ warns = IF arg.sc.calc = "SUB" THEN <<>>
                   ELSE <<"Capturing state of calc mode " \o arg.sc.calc \o " is untested">>
        /\ Len(trace) = 1 + Cardinality(CalcSubfamSettings[arg.sc.calc])
        /\ DOMAIN settings = {"MODE", arg.sc.calc}
        /\ DOMAIN settings[arg.sc.calc] = CalcSubfamSettings[arg.sc.calc]

C6_Witness ==
    /\ op = "_fetch_trigger_settings" /\ err = "none"
    /\ arg.sc.trig = "SPI"
    /\ Len(warns) = 1
    /\ "SPI" \in DOMAIN settings

(***************************************************************************)
(* C7.  A capture whose preamble has a mode other than 0 and the format 0  *)
(* emits a warning and goes on: fetch_waveform does not fail on the mode   *)
(* and returns a Waveform.  The code does not do this: line 213 builds the *)
(* warning's text from a name, mode, that fetch_waveform never binds.      *)
(***************************************************************************)
C7_ModeWarning ==
    (/\ op = "fetch_waveform"
     /\ arg.sc.failAt = 0
     /\ arg.channels = <<"CHAN1">>
     /\ arg.sc.trig = "EDGE"
     /\ LineOk(arg.sc)
     /\ arg.sc.pre[1].v = 0
     /\ arg.sc.pre[2].v # 0
     /\ arg.sc.pre[5].v # 0) =>
        /\ err = "none"
        /\ Len(warns) >= 1
        /\ Cardinality(Held) = 1

(***************************************************************************)
(* C8.  A preamble whose format is not 0 makes the construction of the     *)
(* Waveform fail, on the capture path and on the deserialization path      *)
(* alike: the call ends in an error and no Waveform is ever returned for   *)
(* such a preamble.                                                        *)
(***************************************************************************)
C8_FormatRejected ==
    /\ \A w \in Held : w.preamble["format"].v = 0
    /\ (op = "fetch_waveform" /\ LineOk(arg.sc) /\ arg.sc.pre[1].v # 0) =>
          /\ err # "none"
          /\ wfs = EmptyDict
    /\ (op = "fetch_waveform" /\ LineOk(arg.sc) /\ arg.sc.pre[1].v # 0
            /\ arg.sc.pre[2].v = 0 /\ arg.sc.failAt = 0
            /\ arg.channels = <<"CHAN1">> /\ arg.sc.trig = "EDGE") =>
          err = "ValueError"
    /\ (op \in {"fetch_waveforms", "collect"} /\ LineOk(arg.sc)
            /\ arg.sc.pre[1].v # 0 /\ arg.channels # <<>>) =>
          err # "none"
    /\ (op = "from_jsons" /\ {"buf_b64", "preamble"} \subseteq DOMAIN arg.s
            /\ arg.s.preamble["format"].v # 0) =>
          /\ err = "ValueError"
          /\ wfs = EmptyDict
    /\ (op = "bundle_from_jsons" /\ "waveforms" \in DOMAIN arg.s
            /\ \E c \in DOMAIN arg.s.waveforms :
                   /\ "preamble" \in DOMAIN arg.s.waveforms[c]
                   /\ arg.s.waveforms[c].preamble["format"].v # 0) =>
          /\ err = "ValueError"
          /\ bundle = NoBundle

C8_Witness ==
    /\ op = "from_jsons"
    /\ arg.edit = "format1"
    /\ arg.s.preamble["format"].v = 1
    /\ err = "ValueError"

(***************************************************************************)
(* C9.  The raw block of a Waveform has n_points + 11 + 1 bytes, n_points  *)
(* being the preamble's; construction rejects a block of another length.   *)
(* The code does not check the length: Waveform.__init__ slices            *)
(* rawbuf[11:-1] and keeps whatever is left.                               *)
(***************************************************************************)
C9_BlockLength ==
    \A w \in Held : Len(w.rawbuf) = w.preamble["n_points"].v + HeaderLen + 1

(***************************************************************************)
(* C10.  A Waveform document or a WaveformBundle document whose version is *)
(* not 1 is rejected by from_jsons.  The code does not check the version:  *)
(* it is one more keyword argument of the constructor, stored as given.    *)
(***************************************************************************)
C10_VersionRejected ==
    /\ (op = "from_jsons" /\ "version" \in DOMAIN arg.s /\ arg.s.version # 1) =>
          err # "none"
    /\ (op = "bundle_from_jsons" /\ "version" \in DOMAIN arg.s /\ arg.s.version # 1) =>
          err # "none"
    /\ (op = "bundle_from_jsons" /\ "waveforms" \in DOMAIN arg.s
            /\ \E c \in DOMAIN arg.s.waveforms : arg.s.waveforms[c].version # 1) =>
          err # "none"


(***************************************************************************)
(* C11.  Settings capture of the channel "FFT" fails with the error that   *)
(* says it is not implemented before any transport call: the capture sends *)
(* no command, whatever the instrument and the transport would do, and a   *)
(* fetch_waveform of FFT stops right after its data-block query.           *)
(***************************************************************************)
C11_FftNoTransport ==
    /\ (op = "_fetch_channel_settings" /\ arg.channels = <<"FFT">>) =>
          /\ err = "Exception"
          /\ trace = <<>>
          /\ settings = EmptyDict
    /\ (op = "fetch_waveform" /\ arg.channels = <<"FFT">>) =>
          /\ err # "none"
          /\ wfs = EmptyDict
          /\ err = "Exception" =>
                trace = <<":WAV:SOUR FFT", ":WAV:PRE?", ":WAV:DATA?">>

C11_Witness ==
    /\ op = "_fetch_channel_settings"
    /\ arg.channels = <<"FFT">>
    /\ arg.sc.failAt = 1
    /\ err = "Exception"
    /\ trace = <<>>


(***************************************************************************)
(* C12.  fetch_display always fails with the error that says it is not     *)
(* implemented and never returns data.  The code has no such error: it     *)
(* asks the instrument for the bitmap and returns the bytes it reads.      *)
(***************************************************************************)
C12_DisplayNotImplemented ==
    (op = "fetch_display") =>
        /\ err \in {"NotImplementedError", "Exception"}
        /\ ret = <<>>


(***************************************************************************)
(* C13.  _fetch_settings, for any prefix and any list of tokens, sends one *)
(* text query per entry of the list, in the order of the list, each of the *)
(* form :<prefix>:<token>?, and returns a mapping whose keys are exactly   *)
(* the tokens and whose value under a token is the reply to that token's   *)
(* query, the last one when the list has the token more than once.         *)
(***************************************************************************)
\* The position of the last entry of slist that is the token t.
LastOf(slist, t) ==
    CHOOSE i \in 1 .. Len(slist) :
        /\ slist[i] = t
        /\ \A j \in (i + 1) .. Len(slist) : slist[j] # t

C13_SettingsFetcher ==
    (op = "_fetch_settings") =>
        /\ IsPrefix(trace, [i \in 1 .. Len(arg.slist) |->
                               ":" \o arg.prefix \o ":" \o arg.slist[i] \o "?"])
        /\ arg.sc.failAt \notin 1 .. Len(arg.slist) =>
              /\ err = "none"
              /\ Len(trace) = Len(arg.slist)
              /\ DOMAIN settings = Range(arg.slist)
              /\ \A t \in Range(arg.slist) :
                    settings[t] = LineReply(arg.sc, trace[LastOf(arg.slist, t)],
                                            LastOf(arg.slist, t))
        /\ arg.sc.failAt \in 1 .. Len(arg.slist) =>
              /\ err = "TransportError"
              /\ Len(trace) = arg.sc.failAt
              /\ settings = EmptyDict

C13_Witness ==
    /\ op = "_fetch_settings" /\ err = "none"
    /\ arg.prefix = "TRIG"
    /\ arg.slist = TrigSettings
    /\ Len(trace) = 8
    /\ Cardinality(DOMAIN settings) = 6
    /\ settings["STAT"] = "r6"


(***************************************************************************)
(* C14.  WaveformBundle.collect is all or nothing and never retries: when  *)
(* a transport call or a channel's fetch fails, the error reaches the      *)
(* caller, the command that failed is the last one sent (none is sent      *)
(* again, none is sent for a later channel) and no bundle is returned.     *)
(***************************************************************************)
\* q is the beginning of one capture of channel c, started with a snapshot:
\* the select, then commands that are neither a select nor a trigger query
\* and of which none occurs twice.
IsPartial(q, c) ==
    /\ Len(q) >= 1
    /\ q[1] = ":WAV:SOUR " \o c
    /\ Len(q) >= 2 => q[2] = ":WAV:PRE?"
    /\ Len(q) >= 3 => q[3] = ":WAV:DATA?"
    /\ \A i \in 2 .. Len(q) : ~IsSelect(q[i]) /\ ~IsTrigQuery(q[i])
    /\ \A i, j \in 1 .. Len(q) : i # j => q[i] # q[j]

\* q is the captures of some first channels of chs, all complete, and then
\* the beginning of the capture of the next one.
StoppedIn(q, chs, m) ==
    \E k \in 1 .. Len(chs), n \in 0 .. Len(q) :
        /\ AreCaptures(SubSeq(q, 1, n), SubSeq(chs, 1, k - 1), m)
        /\ IsPartial(SubSeq(q, n + 1, Len(q)), chs[k])

C14_AllOrNothing ==
    (op = "collect") =>
        /\ (arg.sc.failAt \in 1 .. Len(trace)) =>
              /\ err = "TransportError"
              /\ Len(trace) = arg.sc.failAt
        /\ ("FFT" \in Range(arg.channels)) => err # "none"
        /\ (err # "none") =>
              /\ bundle = NoBundle
              /\ \/ IsPrefix(trace, OneTrigFetch(arg.sc.trig))
                 \/ /\ IsPrefix(OneTrigFetch(arg.sc.trig), trace)
                    /\ StoppedIn(SubSeq(trace, Len(OneTrigFetch(arg.sc.trig)) + 1, Len(trace)),
                                 arg.channels, arg.sc.calc)

C14_Witness ==
    /\ op = "collect"
    /\ arg.channels = <<"CHAN1", "CHAN3">>
    /\ arg.sc.failAt = 31
    /\ err = "TransportError"
    /\ trace[30] = ":WAV:SOUR CHAN3"
    /\ Len(trace) = 31
    /\ bundle = NoBundle


(***************************************************************************)
(* C15.  Round trip of a bundle: WaveformBundle.from_jsons(b.to_jsons())   *)
(* succeeds and gives a bundle with b's version, title and channel_names,  *)
(* whose waveforms have b's keys, each value being a decoded Waveform, not *)
(* a document mapping, with the fields of b's Waveform under that key.     *)
(***************************************************************************)
\* v is a Waveform with the fields of w.
SameWaveform(v, w) ==
    /\ "readings" \in DOMAIN v
    /\ "buf_b64" \notin DOMAIN v
    /\ v.version = w.version
    /\ v.preamble = w.preamble
    /\ v.channel_settings = w.channel_settings
    /\ v.trigger_settings = w.trigger_settings
    /\ v.idn_line = w.idn_line
    /\ v.rawbuf = w.rawbuf
    /\ v.readings = w.readings
    /\ v.t = w.t
    /\ v.y = w.y
    /\ v.Fs = w.Fs

C15_BundleRoundTrip ==
    (op = "bundle_from_jsons" /\ arg.edit = "same") =>
        /\ err = "none"
        /\ bundle.version = docOf.version
        /\ bundle.title = docOf.title
        /\ bundle.channel_names = docOf.channel_names
        /\ DOMAIN bundle.waveforms = DOMAIN docOf.waveforms
        /\ \A k \in DOMAIN docOf.waveforms :
              SameWaveform(bundle.waveforms[k], docOf.waveforms[k])

C15_Witness ==
    /\ op = "bundle_from_jsons" /\ arg.edit = "same" /\ err = "none"
    /\ DOMAIN bundle.waveforms = {"CHAN1", "MATH"}
    /\ Len(bundle.waveforms["MATH"].readings) = 2
    /\ bundle.channel_names["MATH"] = "label of MATH"


(***************************************************************************)
(* C16.  Decoding a document that lacks a required field is rejected with  *)
(* an error and gives no object.  The required fields of a Waveform        *)
(* document are the identity line, the channel settings, the trigger       *)
(* settings, the preamble and the encoded raw block; those of a bundle     *)
(* document the title, the channel labels and the waveforms, each of which *)
(* must itself be a complete Waveform document.                            *)
(***************************************************************************)
Lacks(d, keys) == \E k \in keys : k \notin DOMAIN d

C16_MissingField ==
    /\ (op = "from_jsons"
            /\ Lacks(arg.s, {"idn_line", "channel_settings", "trigger_settings",
                             "preamble", "buf_b64"})) =>
          /\ err \in {"KeyError", "TypeError"}
          /\ wfs = EmptyDict
    /\ (op = "bundle_from_jsons"
            /\ \/ Lacks(arg.s, {"title", "channel_names", "waveforms"})
               \/ \E k \in DOMAIN arg.s.waveforms :
                      Lacks(arg.s.waveforms[k],
                            {"idn_line", "channel_settings", "trigger_settings",
                             "preamble", "buf_b64"})) =>
          /\ err \in {"KeyError", "TypeError"}
          /\ bundle = NoBundle

C16_Witness ==
    /\ op = "from_jsons"
    /\ arg.edit = "drop_idn_line"
    /\ DOMAIN arg.s = {"version", "channel_settings", "trigger_settings",
                       "preamble", "buf_b64"}
    /\ err = "TypeError"
    /\ wfs = EmptyDict


(***************************************************************************)
(* C17.  _parse_preamble accepts every line of exactly 10 numeric fields   *)
(* separated by commas and maps them, in this order, to format, mode,      *)
(* n_points, n_avgs, x_step, x_origin, x_reference, y_step, y_origin and   *)
(* y_reference; it rejects with a parse error, returning no preamble,      *)
(* every line of fewer or more than 10 fields and every line with a field  *)
(* that is no number.                                                      *)
(***************************************************************************)
\* The fields the text was written from; the empty text is one empty field.
Written(fields) == IF fields = <<>> THEN <<T(<<>>, FALSE, 0)>> ELSE fields

C17_PreambleDecode ==
    (op = "_parse_preamble") =>
        IF Len(Written(arg.fields)) = 10 /\ \A i \in 1 .. 10 : arg.fields[i].num
        THEN /\ err = "none"
             /\ DOMAIN ret = {"format", "mode", "n_points", "n_avgs", "x_step", "x_origin",
                              "x_reference", "y_step", "y_origin", "y_reference"}
             /\ ret["format"].v = arg.fields[1].v
             /\ ret["mode"].v = arg.fields[2].v
             /\ ret["n_points"].v = arg.fields[3].v
             /\ ret["n_avgs"].v = arg.fields[4].v
             /\ ret["x_step"].v = arg.fields[5].v
             /\ ret["x_origin"].v = arg.fields[6].v
             /\ ret["x_reference"].v = arg.fields[7].v
             /\ ret["y_step"].v = arg.fields[8].v
             /\ ret["y_origin"].v = arg.fields[9].v
             /\ ret["y_reference"].v = arg.fields[10].v
        ELSE /\ err = "ValueError"
             /\ ret = <<>>

C17_Witness ==
    /\ op = "_parse_preamble" /\ err = "none"
    /\ arg.text = <<"0", ",", "1", ",", "2", ",", "3", ",", "4", ",", "-", "5", ",",
                    "6", ",", " ", "7", " ", ",", "8", ",", "1", "2", "7">>
    /\ ret["x_origin"] = PyFloat(0 - 5)
    /\ ret["y_step"] = PyFloat(7)


(***************************************************************************)
(* C18.  Voltage reconstruction: in every Waveform, with the preamble's    *)
(* y_step d, y_origin o and y_reference r, the voltage of each sample s of *)
(* the raw block (header and last byte dropped) is (s + (o - r)) * d, for  *)
(* every s in 0..255, without wrap-around of the 8-bit sample.  The code   *)
(* adds o - r to an array of unsigned bytes: when the preamble's numbers   *)
(* are Python ints, as json.loads makes them of a document that writes 130 *)
(* for 130.0, NumPy keeps the sum in 8 bits and it wraps around.           *)
(***************************************************************************)
C18_Voltage ==
    \A w \in Held :
        /\ Len(w.y) = Len(Readings(w.rawbuf))
        /\ \A i \in 1 .. Len(w.y) :
              w.y[i] = (Readings(w.rawbuf)[i]
                            + (w.preamble["y_origin"].v - w.preamble["y_reference"].v))
                       * w.preamble["y_step"].v



(***************************************************************************)
(* C19.  A capture sequence is not rolled back.  When fetch_waveform (alone *)
(* or inside fetch_waveforms or collect) fails after a channel-select      *)
(* command was sent, the select commands of the call are those of the      *)
(* channels asked for, in order, and none restores an earlier channel; the *)
(* selection is never queried; the step that failed sent the last command  *)
(* of the call; and the instrument's selected source is the channel of the *)
(* failed fetch.  Between calls the source changes only when a call sends  *)
(* a select command.                                                       *)
(***************************************************************************)
Selects(q) == SelectSeq(q, IsSelect)

\* The command the transport failed on was a select.
SelectFailed ==
    /\ err = "TransportError"
    /\ arg.sc.failAt \in 1 .. Len(trace)
    /\ IsSelect(trace[arg.sc.failAt])

CaptureFailed ==
    /\ op \in {"fetch_waveform", "fetch_waveforms", "collect"}
    /\ err # "none"
    /\ Selects(trace) # <<>>
    /\ ~SelectFailed

C19_AfterFailure ==
    CaptureFailed =>
        /\ Len(Selects(trace)) <= Len(arg.channels)
        /\ \A i \in 1 .. Len(Selects(trace)) :
              Selects(trace)[i] = ":WAV:SOUR " \o arg.channels[i]
        /\ \A i \in 1 .. Len(trace) : trace[i] # ":WAV:SOUR?"
        /\ (err = "TransportError") => Len(trace) = arg.sc.failAt
        /\ (err = "NameError") => trace[Len(trace)] = ":WAV:PRE?"
        /\ (err = "Exception") => trace[Len(trace)] = ":WAV:DATA?"
        /\ source = arg.channels[Len(Selects(trace))]

SourceKept ==
    (source' # source) => \E i \in 1 .. Len(trace') : IsSelect(trace'[i])

C19_NoRollback == [](C19_AfterFailure) /\ [][SourceKept]_vars

C19_Witness ==
    /\ op = "fetch_waveform"
    /\ arg.channels = <<"CHAN3">>
    /\ err = "TransportError"
    /\ trace = <<":WAV:SOUR CHAN3", ":WAV:PRE?", ":WAV:DATA?">>
    /\ source = "CHAN3"



(***************************************************************************)
(* C20.  Exclusive ownership.  Of the Waveforms a capture (fetch_waveform,  *)
(* fetch_waveforms, collect) returned, no two refer to the same mapping    *)
(* object: each preamble, channel-settings and trigger-settings mapping is *)
(* referenced by one Waveform only, so a change made through one Waveform  *)
(* cannot be seen through another.                                         *)
(***************************************************************************)
MappingAttrs == {"preamble", "channel_settings", "trigger_settings"}

\* The k-th Waveform constructed is still in the results: no later one was
\* stored under its channel.
Kept(k) == \A j \in k + 1 .. Len(refs) : arg.channels[j] # arg.channels[k]

C20_ExclusiveOwnership ==
    (op \in {"fetch_waveform", "fetch_waveforms", "collect"} /\ err = "none") =>
        /\ Len(refs) = Len(arg.channels)
        /\ \A i, j \in 1 .. Len(refs) :
              (i # j /\ Kept(i) /\ Kept(j)) =>
                  \A a, b \in MappingAttrs : refs[i][a] # refs[j][b]



(***************************************************************************)
(* C21.  WaveformBundle._from_json_dict leaves the document mapping it is   *)
(* given unchanged, its nested waveforms mapping included: after the call  *)
(* the caller's mapping is what it was before the first call, and when the *)
(* first call succeeded, a second call on the same mapping succeeds too    *)
(* and gives an equal bundle.                                              *)
(***************************************************************************)
C21_InputUnchanged ==
    (op = "bundle_from_json_dict") =>
        /\ mapping = arg.s
        /\ (arg.nth = 2 /\ arg.first.err = "none") =>
              /\ err = "none"
              /\ bundle = arg.first.val

====
